---- MODULE Spec2Model ----
(***************************************************************************)
(* Sales back end of products_bank: the sale routes, their validation      *)
(* middleware, the sale controller and the sale service, over the ventas   *)
(* table.                                                                  *)
(*                                                                         *)
(* Encoding.  A JSON value of a request body is a record [t, v]: t is the  *)
(* JavaScript type and v the number (0 for undefined and null).  Amounts   *)
(* and rates are DECIMAL(x,2) columns and are counted in hundredths:       *)
(* 1550 is 15.50, 10000 is 100.00, 1 is 0.01.  estado is a string, with    *)
(* NoEstado for an absent key.  One request is handled at a time: a        *)
(* handler runs when last.op = "idle" and leaves the request and its       *)
(* answer in last; EndRequest sends the answer.  A user creation or update *)
(* awaits the database between its existence check and its write: the      *)
(* request waits in pending meanwhile, and other requests are handled.     *)
(* The same holds for a sale update between its checks and its UPDATE and  *)
(* for the queries of getDashboardMetrics.  The auth slice of the browser  *)
(* is modelled beside the back end, with its thunks in flight.             *)
(***************************************************************************)
EXTENDS Integers, Sequences, FiniteSets, TLC

VARIABLES users, nextUserId, pending, sales, nextId, last,
          auth, thunks, localStorage

vars == <<users, nextUserId, pending, sales, nextId, last, auth, thunks, localStorage>>

\* the state of the back end
backend == <<users, nextUserId, pending, sales, nextId, last>>

\* the state of the browser: the auth slice of the store, the thunks whose
\* request is in flight and the token item of localStorage
frontend == <<auth, thunks, localStorage>>

\* the usuarios table, its auto-increment and the user requests in flight
userState == <<users, nextUserId, pending>>

(***************************************************************************)
(* Bounds                                                                  *)
(***************************************************************************)
\* number of rows ever inserted into ventas
MaxSales == 2
\* number of thunks of the browser in flight at once
MaxThunks == 3
\* number of distinct clock readings
MaxTime == 2
\* number of rows ever inserted into usuarios
MaxUserId == 4
\* number of user creations and updates that wait for the database at once
MaxInFlight == 2

Times == 1..MaxTime

(***************************************************************************)
(* JavaScript values                                                       *)
(***************************************************************************)
Undefined == [t |-> "undefined", v |-> 0]
Null == [t |-> "null", v |-> 0]
Num(n) == [t |-> "number", v |-> n]
IsNum(x) == x.t = "number"
\* undefined, null and 0 are falsy
Truthy(x) == x.t = "number" /\ x.v # 0
NoEstado == "undefined"

(***************************************************************************)
(* utils/constants.js                                                      *)
(***************************************************************************)
ROLES == [ADMIN |-> [ID |-> 1], ADVISOR |-> [ID |-> 2]]

SALE_STATUSES == [OPEN |-> "Abierto", IN_PROCESS |-> "En Proceso", FINISHED |-> "Finalizado"]

PRODUCTS == [CONSUMER_CREDIT |-> [ID |-> 1],
             FREE_INVESTMENT_PAYROLL |-> [ID |-> 2],
             CREDIT_CARD |-> [ID |-> 3]]

FRANCHISES == [AMEX |-> [ID |-> 1], VISA |-> [ID |-> 2], MASTERCARD |-> [ID |-> 3]]

HTTP_STATUS == [OK |-> 200, CREATED |-> 201, BAD_REQUEST |-> 400, UNAUTHORIZED |-> 401,
                FORBIDDEN |-> 403, NOT_FOUND |-> 404, CONFLICT |-> 409,
                INTERNAL_SERVER_ERROR |-> 500]

\* AMOUNT_MIN 0.01, RATE_MIN 0, RATE_MAX 100, in hundredths
VALIDATION == [PASSWORD_MIN_LENGTH |-> 8, PASSWORD_MAX_LENGTH |-> 255,
               NAME_MIN_LENGTH |-> 3, NAME_MAX_LENGTH |-> 50,
               AMOUNT_MIN |-> 1, RATE_MIN |-> 0, RATE_MAX |-> 10000]

\* the names utils/constants.js exports
constantsExports == {"ROLES", "SALE_STATUSES", "PRODUCTS", "FRANCHISES", "HTTP_STATUS",
                     "ERROR_CODES", "VALIDATION", "PAGINATION", "JWT"}

\* const { ROLES, PRODUCTS, SALE_STATUS } = require('../utils/constants'):
\* a name the module does not export is bound to undefined, and reading a
\* property of it throws a TypeError
SALE_STATUS == IF "SALE_STATUS" \in constantsExports
               THEN [defined |-> TRUE, OPEN |-> "Abierto", IN_PROCESS |-> "En Proceso",
                     FINISHED |-> "Finalizado"]
               ELSE [defined |-> FALSE]

\* the names utils/responses.js exports
responsesExports == {"successResponse", "errorResponse", "paginatedResponse",
                     "createdResponse", "noContentResponse", "validationErrorResponse",
                     "notFoundResponse", "unauthorizedResponse", "forbiddenResponse"}

(***************************************************************************)
(* Reference data (seeders)                                                *)
(***************************************************************************)
ProductCatalog == {PRODUCTS.CONSUMER_CREDIT.ID, PRODUCTS.FREE_INVESTMENT_PAYROLL.ID,
                   PRODUCTS.CREDIT_CARD.ID}

FranchiseCatalog == {FRANCHISES.AMEX.ID, FRANCHISES.VISA.ID, FRANCHISES.MASTERCARD.ID}

\* an email address as a request gives it: the address in lower case, and
\* whether it came with upper-case letters, with blanks around it, and in
\* the form of an address at all
Email(name) == [name |-> name, upper |-> FALSE, padded |-> FALSE, wellFormed |-> TRUE]
NoEmail == [name |-> "undefined", upper |-> FALSE, padded |-> FALSE, wellFormed |-> FALSE]
\* email.toLowerCase().trim()
lowerTrim(email) == [email EXCEPT !.upper = FALSE, !.padded = FALSE]

\* a password: its text, its length and whether it has a lower-case letter,
\* an upper-case letter and a digit
Password(text, len, mixed) == [text |-> text, len |-> len, mixed |-> mixed]
NoPassword == Password("undefined", 0, FALSE)
SeedPassword == Password("Admin123!", 9, TRUE)
\* bcrypt.hash(password, salt), and bcrypt.compare
Hash(password) == [bcrypt |-> password.text]
comparePassword(candidatePassword, stored) == Hash(candidatePassword) = stored

\* a name and its length
Nombre(text, len) == [text |-> text, len |-> len]
NoNombre == Nombre("undefined", 0)

\* the seeded administrator and two advisors the administrator created
SeedUsers ==
    (1 :> [rolId |-> ROLES.ADMIN.ID, nombre |-> Nombre("Administrador", 13),
           email |-> Email("admin"), password |-> Hash(SeedPassword)])
    @@ (2 :> [rolId |-> ROLES.ADVISOR.ID, nombre |-> Nombre("Ana", 3),
              email |-> Email("ana"), password |-> Hash(SeedPassword)])
    @@ (3 :> [rolId |-> ROLES.ADVISOR.ID, nombre |-> Nombre("Bea", 3),
              email |-> Email("bea"), password |-> Hash(SeedPassword)])

UserIds == DOMAIN SeedUsers

(***************************************************************************)
(* Errors (utils/errors.js) and the error handler: the HTTP status each    *)
(* thrown error is answered with                                           *)
(***************************************************************************)
ValidationError == HTTP_STATUS.BAD_REQUEST
AuthorizationError == HTTP_STATUS.FORBIDDEN
NotFoundError == HTTP_STATUS.NOT_FOUND
AuthenticationError == HTTP_STATUS.UNAUTHORIZED
DuplicateEntryError == HTTP_STATUS.CONFLICT
\* SequelizeUniqueConstraintError
SequelizeUniqueConstraintError == HTTP_STATUS.CONFLICT
\* SequelizeForeignKeyConstraintError
SequelizeForeignKeyConstraintError == HTTP_STATUS.BAD_REQUEST
\* SequelizeValidationError
SequelizeValidationError == HTTP_STATUS.BAD_REQUEST
\* an error that is no AppError and no Sequelize, JWT, multer or JSON error
TypeError == HTTP_STATUS.INTERNAL_SERVER_ERROR

Idle == [op |-> "idle"]

\* the outcome of a service call that threw: nothing was written
Thrown(err) == [status |-> err, sales |-> sales, nextId |-> nextId, id |-> 0]

(***************************************************************************)
(* middleware/validationMiddleware.js                                      *)
(***************************************************************************)
validStatusNames == {"Abierto", "En Proceso", "Finalizado"}

validateSaleCreate(body) ==
    /\ IsNum(body.productoId) /\ body.productoId.v >= 1
    /\ IsNum(body.cupoSolicitado) /\ body.cupoSolicitado.v >= VALIDATION.AMOUNT_MIN
    /\ (body.productoId = Num(PRODUCTS.CREDIT_CARD.ID)
          => IsNum(body.franquiciaId) /\ body.franquiciaId.v >= 1)
    /\ (body.productoId \in {Num(PRODUCTS.CONSUMER_CREDIT.ID),
                             Num(PRODUCTS.FREE_INVESTMENT_PAYROLL.ID)}
          => /\ IsNum(body.tasa)
             /\ body.tasa.v >= VALIDATION.RATE_MIN
             /\ body.tasa.v <= VALIDATION.RATE_MAX)
    /\ (body.estado # NoEstado => body.estado \in validStatusNames)

(***************************************************************************)
(* models/Sale.js: the validators of the model                             *)
(***************************************************************************)
SaleModelValid(row) ==
    /\ row.cupoSolicitado >= 1
    /\ (IsNum(row.tasa) => row.tasa.v >= 0 /\ row.tasa.v <= 10000)
    /\ row.estado \in validStatusNames

(***************************************************************************)
(* services/saleService.js                                                 *)
(***************************************************************************)
\* the product looked up without a look at the result
productExists_always(productoId) == TRUE

\* Product.findByPk(productoId)
productExists(productoId) == productoId \in ProductCatalog

\* Franchise.findByPk(franquiciaId)
franchiseExists(franquiciaId) == franquiciaId \in FranchiseCatalog

isCreditOrPayroll(productId) ==
    productId = PRODUCTS.CONSUMER_CREDIT.ID \/ productId = PRODUCTS.FREE_INVESTMENT_PAYROLL.ID

\* 'Franchise is required for credit cards'
franchiseMissing(productId, franquiciaId) ==
    productId = PRODUCTS.CREDIT_CARD.ID /\ ~Truthy(franquiciaId)

\* the check of the franchise of a product that has none, left out
franchiseNotApplicable_never(productId, franquiciaId) == FALSE

\* 'Franchise is only applicable to credit cards'
franchiseNotApplicable(productId, franquiciaId) ==
    productId # PRODUCTS.CREDIT_CARD.ID /\ Truthy(franquiciaId)

\* 'Rate is required for credits and payrolls'
rateMissing(productId, tasa) ==
    isCreditOrPayroll(productId) /\ ~Truthy(tasa)

\* 'Rate is only applicable to credits and payrolls'
rateNotApplicable(productId, tasa) ==
    ~isCreditOrPayroll(productId) /\ tasa # Undefined /\ tasa # Null

\* the row Sale.create is given
newRow(saleData, userId, now) ==
    [productoId |-> saleData.productoId.v,
     cupoSolicitado |-> saleData.cupoSolicitado.v,
     franquiciaId |-> IF Truthy(saleData.franquiciaId) THEN saleData.franquiciaId ELSE Null,
     tasa |-> IF Truthy(saleData.tasa) THEN saleData.tasa ELSE Null,
     estado |-> IF saleData.estado # NoEstado THEN saleData.estado ELSE SALE_STATUS.OPEN,
     usuarioCreadorId |-> userId,
     usuarioActualizadorId |-> userId,
     createdAt |-> now]

createNewSale(saleData, userId, now) ==
    LET productoId == saleData.productoId
        franquiciaId == saleData.franquiciaId
        tasa == saleData.tasa
    IN  IF ~Truthy(productoId) \/ ~Truthy(saleData.cupoSolicitado)
             THEN Thrown(ValidationError)
        ELSE IF ~productExists(productoId.v) THEN Thrown(ValidationError)
        ELSE IF franchiseMissing(productoId.v, franquiciaId) THEN Thrown(ValidationError)
        ELSE IF franchiseNotApplicable(productoId.v, franquiciaId)
             THEN Thrown(ValidationError)
        ELSE IF Truthy(franquiciaId) /\ ~franchiseExists(franquiciaId.v)
             THEN Thrown(ValidationError)
        ELSE IF rateMissing(productoId.v, tasa) THEN Thrown(ValidationError)
        ELSE IF rateNotApplicable(productoId.v, tasa) THEN Thrown(ValidationError)
        \* estado || SALE_STATUS.OPEN
        ELSE IF saleData.estado = NoEstado /\ ~SALE_STATUS.defined THEN Thrown(TypeError)
        ELSE IF ~SaleModelValid(newRow(saleData, userId, now))
             THEN Thrown(SequelizeValidationError)
        ELSE [status |-> HTTP_STATUS.CREATED,
              sales |-> sales @@ (nextId :> newRow(saleData, userId, now)),
              nextId |-> nextId + 1,
              id |-> nextId]

\* the ownership check left out
notOwner_never(sale, userRolId, userId) == FALSE

\* the ownership check made for every role
notOwner_anyRole(sale, userRolId, userId) == sale.usuarioCreadorId # userId

\* Advisors act on their own sales only
notOwner(sale, userRolId, userId) ==
    userRolId = ROLES.ADVISOR.ID /\ sale.usuarioCreadorId # userId

validateId(id) == id >= 1

validateSaleUpdate(body) ==
    /\ (body.productoId # Undefined => IsNum(body.productoId) /\ body.productoId.v >= 1)
    /\ (body.cupoSolicitado # Undefined
          => IsNum(body.cupoSolicitado) /\ body.cupoSolicitado.v >= VALIDATION.AMOUNT_MIN)
    /\ (body.franquiciaId # Undefined => IsNum(body.franquiciaId) /\ body.franquiciaId.v >= 1)
    /\ (body.tasa # Undefined
          => /\ IsNum(body.tasa)
             /\ body.tasa.v >= VALIDATION.RATE_MIN
             /\ body.tasa.v <= VALIDATION.RATE_MAX)
    /\ (body.estado # NoEstado => body.estado \in validStatusNames)

\* the keys of updateData and the row that sale.update(updateData) writes
updateDataKeys(saleData) ==
    {k \in {"productoId", "cupoSolicitado", "franquiciaId", "tasa"} : saleData[k] # Undefined}
    \cup (IF saleData.estado # NoEstado THEN {"estado"} ELSE {})

\* the update writes the caller into both user columns
updatedRow_creatorOverwritten(sale, saleData, userId) ==
    [productoId |-> IF saleData.productoId # Undefined THEN saleData.productoId.v
                    ELSE sale.productoId,
     cupoSolicitado |-> IF saleData.cupoSolicitado # Undefined THEN saleData.cupoSolicitado.v
                        ELSE sale.cupoSolicitado,
     franquiciaId |-> IF saleData.franquiciaId # Undefined THEN saleData.franquiciaId
                      ELSE sale.franquiciaId,
     tasa |-> IF saleData.tasa # Undefined THEN saleData.tasa ELSE sale.tasa,
     estado |-> IF saleData.estado # NoEstado THEN saleData.estado ELSE sale.estado,
     usuarioCreadorId |-> userId,
     usuarioActualizadorId |-> userId,
     createdAt |-> sale.createdAt]

updatedRow(sale, saleData, userId) ==
    [productoId |-> IF saleData.productoId # Undefined THEN saleData.productoId.v
                    ELSE sale.productoId,
     cupoSolicitado |-> IF saleData.cupoSolicitado # Undefined THEN saleData.cupoSolicitado.v
                        ELSE sale.cupoSolicitado,
     franquiciaId |-> IF saleData.franquiciaId # Undefined THEN saleData.franquiciaId
                      ELSE sale.franquiciaId,
     tasa |-> IF saleData.tasa # Undefined THEN saleData.tasa ELSE sale.tasa,
     estado |-> IF saleData.estado # NoEstado THEN saleData.estado ELSE sale.estado,
     usuarioCreadorId |-> sale.usuarioCreadorId,
     usuarioActualizadorId |-> userId,
     createdAt |-> sale.createdAt]

\* the updater written before the payload is checked for fields to update
updateSaleById_updaterFirst(id, saleData, userRolId, userId) ==
    IF id \notin DOMAIN sales THEN Thrown(NotFoundError)
    ELSE IF notOwner(sales[id], userRolId, userId) THEN Thrown(AuthorizationError)
    ELSE IF saleData.productoId # Undefined /\ ~productExists(saleData.productoId.v)
         THEN Thrown(ValidationError)
    ELSE IF /\ saleData.franquiciaId # Undefined
            /\ saleData.franquiciaId # Null
            /\ ~franchiseExists(saleData.franquiciaId.v)
         THEN Thrown(ValidationError)
    ELSE IF saleData.estado # NoEstado /\ ~SALE_STATUS.defined THEN Thrown(TypeError)
    ELSE IF saleData.estado # NoEstado /\ saleData.estado \notin validStatusNames
         THEN Thrown(ValidationError)
    ELSE IF updateDataKeys(saleData) = {}
         THEN [status |-> ValidationError,
               sales |-> [sales EXCEPT ![id].usuarioActualizadorId = userId],
               nextId |-> nextId,
               id |-> 0]
    ELSE IF ~SaleModelValid(updatedRow(sales[id], saleData, userId))
         THEN Thrown(SequelizeValidationError)
    ELSE [status |-> HTTP_STATUS.OK,
          sales |-> [sales EXCEPT ![id] = updatedRow(sales[id], saleData, userId)],
          nextId |-> nextId,
          id |-> id]

updateSaleById(id, saleData, userRolId, userId) ==
    IF id \notin DOMAIN sales THEN Thrown(NotFoundError)
    ELSE IF notOwner(sales[id], userRolId, userId) THEN Thrown(AuthorizationError)
    ELSE IF saleData.productoId # Undefined /\ ~productExists(saleData.productoId.v)
         THEN Thrown(ValidationError)
    ELSE IF /\ saleData.franquiciaId # Undefined
            /\ saleData.franquiciaId # Null
            /\ ~franchiseExists(saleData.franquiciaId.v)
         THEN Thrown(ValidationError)
    ELSE IF saleData.estado # NoEstado /\ ~SALE_STATUS.defined THEN Thrown(TypeError)
    ELSE IF saleData.estado # NoEstado /\ saleData.estado \notin validStatusNames
         THEN Thrown(ValidationError)
    ELSE IF updateDataKeys(saleData) = {} THEN Thrown(ValidationError)
    ELSE IF ~SaleModelValid(updatedRow(sales[id], saleData, userId))
         THEN Thrown(SequelizeValidationError)
    ELSE [status |-> HTTP_STATUS.OK,
          sales |-> [sales EXCEPT ![id] = updatedRow(sales[id], saleData, userId)],
          nextId |-> nextId,
          id |-> id]

\* sale.destroy(), then the controller answers with deletedResponse
deleteSaleById(id, userRolId, userId) ==
    IF id \notin DOMAIN sales THEN Thrown(NotFoundError)
    ELSE IF notOwner(sales[id], userRolId, userId) THEN Thrown(AuthorizationError)
    ELSE [status |-> HTTP_STATUS.OK,
          sales |-> [i \in DOMAIN sales \ {id} |-> sales[i]],
          nextId |-> nextId,
          id |-> id]

findSaleById(id, userRolId, userId) ==
    IF id \notin DOMAIN sales THEN Thrown(NotFoundError)
    ELSE IF notOwner(sales[id], userRolId, userId) THEN Thrown(AuthorizationError)
    ELSE [status |-> HTTP_STATUS.OK, sales |-> sales, nextId |-> nextId, id |-> id]

\* the creator filter of the caller honoured for every role
buildWhereClause_filterOfAnyRole(userRolId, userId, additionalFilters) ==
    [usuarioCreadorId |->
         IF Truthy(additionalFilters.usuarioCreadorId)
         THEN additionalFilters.usuarioCreadorId
         ELSE IF userRolId = ROLES.ADVISOR.ID THEN Num(userId) ELSE Undefined,
     productoId |-> IF Truthy(additionalFilters.productoId)
                    THEN additionalFilters.productoId ELSE Undefined,
     estado |-> additionalFilters.estado,
     createdAtGte |-> IF Truthy(additionalFilters.startDate)
                      THEN additionalFilters.startDate ELSE Undefined,
     createdAtLte |-> IF Truthy(additionalFilters.endDate)
                      THEN additionalFilters.endDate ELSE Undefined]

\* the ownership constraint set for every role
buildWhereClause_ownerForAnyRole(userRolId, userId, additionalFilters) ==
    [usuarioCreadorId |->
         IF Truthy(additionalFilters.usuarioCreadorId) /\ userRolId = ROLES.ADMIN.ID
         THEN additionalFilters.usuarioCreadorId
         ELSE Num(userId),
     productoId |-> IF Truthy(additionalFilters.productoId)
                    THEN additionalFilters.productoId ELSE Undefined,
     estado |-> additionalFilters.estado,
     createdAtGte |-> IF Truthy(additionalFilters.startDate)
                      THEN additionalFilters.startDate ELSE Undefined,
     createdAtLte |-> IF Truthy(additionalFilters.endDate)
                      THEN additionalFilters.endDate ELSE Undefined]

\* the where clause, one entry per column it constrains (Undefined: none)
buildWhereClause(userRolId, userId, additionalFilters) ==
    [usuarioCreadorId |->
         IF Truthy(additionalFilters.usuarioCreadorId) /\ userRolId = ROLES.ADMIN.ID
         THEN additionalFilters.usuarioCreadorId
         ELSE IF userRolId = ROLES.ADVISOR.ID THEN Num(userId) ELSE Undefined,
     productoId |-> IF Truthy(additionalFilters.productoId)
                    THEN additionalFilters.productoId ELSE Undefined,
     estado |-> additionalFilters.estado,
     createdAtGte |-> IF Truthy(additionalFilters.startDate)
                      THEN additionalFilters.startDate ELSE Undefined,
     createdAtLte |-> IF Truthy(additionalFilters.endDate)
                      THEN additionalFilters.endDate ELSE Undefined]

\* the rows a where clause selects
selected(where) ==
    {i \in DOMAIN sales :
        /\ (where.usuarioCreadorId # Undefined
              => sales[i].usuarioCreadorId = where.usuarioCreadorId.v)
        /\ (where.productoId # Undefined => sales[i].productoId = where.productoId.v)
        /\ (where.estado # NoEstado => sales[i].estado = where.estado)
        /\ (where.createdAtGte # Undefined => sales[i].createdAt >= where.createdAtGte.v)
        /\ (where.createdAtLte # Undefined => sales[i].createdAt <= where.createdAtLte.v)}

\* order: [['createdAt', 'DESC']]: every order of the rows that has createdAt
\* descending; the store is free in the order of rows of equal createdAt
createdAtDesc(ids) ==
    {s \in [1..Cardinality(ids) -> ids] :
        /\ \A i, j \in 1..Cardinality(ids) : i # j => s[i] # s[j]
        /\ \A i, j \in 1..Cardinality(ids) :
              i < j => sales[s[i]].createdAt >= sales[s[j]].createdAt}

formatSale(i) ==
    [id |-> i,
     productoId |-> sales[i].productoId,
     cupoSolicitado |-> sales[i].cupoSolicitado,
     estado |-> sales[i].estado,
     usuarioCreadorId |-> sales[i].usuarioCreadorId,
     createdAt |-> sales[i].createdAt]

Min(a, b) == IF a <= b THEN a ELSE b

\* rows is one order the store returns the selected rows in
findAllSales(filters, userRolId, userId, pagination, rows) ==
    LET page == IF pagination.page # Undefined THEN pagination.page.v ELSE 1
        limit == IF pagination.limit # Undefined THEN pagination.limit.v ELSE 10
        offset == (page - 1) * limit
        slice == SubSeq(rows, offset + 1, Min(offset + limit, Len(rows)))
    IN  [status |-> HTTP_STATUS.OK,
         items |-> [k \in 1..Len(slice) |-> formatSale(slice[k])],
         total |-> Len(rows)]

RECURSIVE SumOf(_, _)
\* SUM(cupoSolicitado) over a set of rows
SumOf(ids, acc) ==
    IF ids = {} THEN acc
    ELSE LET i == CHOOSE x \in ids : TRUE
         IN  SumOf(ids \ {i}, acc + sales[i].cupoSolicitado)

\* the sum taken over every sale that passes the filters, whoever asks
calculateTotalAmount_unscoped(userRolId, userId, filters) ==
    SumOf(selected(buildWhereClause(ROLES.ADMIN.ID, userId, filters)), 0)

\* Sale.sum('cupoSolicitado', {where}); result || 0
calculateTotalAmount(userRolId, userId, filters) ==
    SumOf(selected(buildWhereClause(userRolId, userId, filters)), 0)

validatePagination(query) ==
    /\ (query.page # Undefined => IsNum(query.page) /\ query.page.v >= 1)
    /\ (query.limit # Undefined
          => IsNum(query.limit) /\ query.limit.v >= 1 /\ query.limit.v <= 100)

validateDateRange(query) ==
    ~(/\ query.endDate # Undefined
      /\ Truthy(query.startDate)
      /\ query.endDate.v < query.startDate.v)

(***************************************************************************)
(* services/statsService.js.  store is the ventas table the queries run   *)
(* on.  A query whose order the code leaves open (no ORDER BY, or ties of  *)
(* the order) has one result per order the database may return: each      *)
(* function gives the set of its possible results.                         *)
(***************************************************************************)
\* additionalFilters = {}
NoFilters == [productoId |-> Undefined, estado |-> NoEstado, startDate |-> Undefined,
              endDate |-> Undefined]

\* the scope left out: every caller is given the Admin's where clause
statsBuildWhereClause_unscoped(userRolId, userId, additionalFilters) ==
    [usuarioCreadorId |-> Undefined,
     productoId |-> IF Truthy(additionalFilters.productoId)
                    THEN additionalFilters.productoId ELSE Undefined,
     estado |-> additionalFilters.estado,
     createdAtGte |-> IF Truthy(additionalFilters.startDate)
                      THEN additionalFilters.startDate ELSE Undefined,
     createdAtLte |-> IF Truthy(additionalFilters.endDate)
                      THEN additionalFilters.endDate ELSE Undefined]

\* buildWhereClause of the statistics service
statsBuildWhereClause(userRolId, userId, additionalFilters) ==
    [usuarioCreadorId |-> IF userRolId = ROLES.ADVISOR.ID THEN Num(userId) ELSE Undefined,
     productoId |-> IF Truthy(additionalFilters.productoId)
                    THEN additionalFilters.productoId ELSE Undefined,
     estado |-> additionalFilters.estado,
     createdAtGte |-> IF Truthy(additionalFilters.startDate)
                      THEN additionalFilters.startDate ELSE Undefined,
     createdAtLte |-> IF Truthy(additionalFilters.endDate)
                      THEN additionalFilters.endDate ELSE Undefined]

\* the rows of store a where clause selects
selectedIn(store, where) ==
    {i \in DOMAIN store :
        /\ (where.usuarioCreadorId # Undefined
              => store[i].usuarioCreadorId = where.usuarioCreadorId.v)
        /\ (where.productoId # Undefined => store[i].productoId = where.productoId.v)
        /\ (where.estado # NoEstado => store[i].estado = where.estado)
        /\ (where.createdAtGte # Undefined => store[i].createdAt >= where.createdAtGte.v)
        /\ (where.createdAtLte # Undefined => store[i].createdAt <= where.createdAtLte.v)}

RECURSIVE SumIn(_, _, _)
\* SUM(cupoSolicitado)
SumIn(store, ids, acc) ==
    IF ids = {} THEN acc
    ELSE LET i == CHOOSE x \in ids : TRUE
         IN  SumIn(store, ids \ {i}, acc + store[i].cupoSolicitado)

\* total / count to two decimals (toFixed(2)), in hundredths
Average(total, count) == IF count > 0 THEN (2 * total + count) \div (2 * count) ELSE 0

\* the orders a result set can be returned in
Orderings(S) ==
    {s \in [1..Cardinality(S) -> S] : \A i, j \in 1..Cardinality(S) : i # j => s[i] # s[j]}

\* the first limit entries
FirstOf(s, limit) == SubSeq(s, 1, Min(limit, Len(s)))

statsService_getDashboardMetrics(store, userRolId, userId, filters) ==
    LET whereClause == statsBuildWhereClause(userRolId, userId, filters)
        ids == selectedIn(store, whereClause)
        totalSales == Cardinality(ids)
        totalAmount == SumIn(store, ids, 0)
        countOf(e) == Cardinality(selectedIn(store, [whereClause EXCEPT !.estado = e]))
    IN  {[totalSales |-> totalSales,
          totalAmount |-> totalAmount,
          averageAmount |-> Average(totalAmount, totalSales),
          salesByStatus |-> [open |-> countOf(SALE_STATUSES.OPEN),
                             inProcess |-> countOf(SALE_STATUSES.IN_PROCESS),
                             finished |-> countOf(SALE_STATUSES.FINISHED)]]}

\* GROUP BY productoId; formattedResults.sort((a, b) => b.count - a.count)
getSalesGroupedByProduct(store, userRolId, userId, filters) ==
    LET ids == selectedIn(store, statsBuildWhereClause(userRolId, userId, filters))
        of(p) == {i \in ids : store[i].productoId = p}
        groups == {[productoId |-> p,
                    count |-> Cardinality(of(p)),
                    totalAmount |-> SumIn(store, of(p), 0),
                    averageAmount |-> Average(SumIn(store, of(p), 0), Cardinality(of(p)))] :
                   p \in {store[i].productoId : i \in ids}}
    IN  {s \in Orderings(groups) :
            \A i, j \in 1..Len(s) : i < j => s[i].count >= s[j].count}

\* 'Only admins can access this data': an empty result for any other role
getSalesGroupedByAdvisor(store, userRolId, filters) ==
    IF userRolId # ROLES.ADMIN.ID THEN {<<>>}
    ELSE LET ids == selectedIn(store, statsBuildWhereClause(ROLES.ADMIN.ID, 0, filters))
             of(a) == {i \in ids : store[i].usuarioCreadorId = a}
             groups == {[usuarioId |-> a,
                         count |-> Cardinality(of(a)),
                         totalAmount |-> SumIn(store, of(a), 0),
                         averageAmount |->
                             Average(SumIn(store, of(a), 0), Cardinality(of(a)))] :
                        a \in {store[i].usuarioCreadorId : i \in ids}}
         IN  {s \in Orderings(groups) :
                 \A i, j \in 1..Len(s) : i < j => s[i].count >= s[j].count}

\* GROUP BY estado, in no stated order
getSalesGroupedByStatus(store, userRolId, userId, filters) ==
    LET ids == selectedIn(store, statsBuildWhereClause(userRolId, userId, filters))
        of(e) == {i \in ids : store[i].estado = e}
        groups == {[estado |-> e,
                    count |-> Cardinality(of(e)),
                    totalAmount |-> SumIn(store, of(e), 0)] :
                   e \in {store[i].estado : i \in ids}}
    IN  Orderings(groups)

\* DATE_FORMAT(createdAt, dateFormat): a clock reading of the model is a
\* day, and all of them lie in one week and one month
periodOf(period, createdAt) == IF period \in {"week", "month"} THEN 1 ELSE createdAt

\* GROUP BY the period, ORDER BY the period ASC
getSalesGroupedByPeriod(store, period, userRolId, userId, filters) ==
    LET ids == selectedIn(store, statsBuildWhereClause(userRolId, userId, filters))
        of(d) == {i \in ids : periodOf(period, store[i].createdAt) = d}
        groups == {[period |-> d,
                    count |-> Cardinality(of(d)),
                    totalAmount |-> SumIn(store, of(d), 0)] :
                   d \in {periodOf(period, store[i].createdAt) : i \in ids}}
    IN  {s \in Orderings(groups) :
            \A i, j \in 1..Len(s) : i < j => s[i].period < s[j].period}

\* ORDER BY createdAt DESC LIMIT limit, over the caller's scope and no filter
statsService_getRecentSales(store, userRolId, userId, limit) ==
    LET ids == selectedIn(store, statsBuildWhereClause(userRolId, userId, NoFilters))
        rows == {[id |-> i,
                  productoId |-> store[i].productoId,
                  cupoSolicitado |-> store[i].cupoSolicitado,
                  estado |-> store[i].estado,
                  usuarioCreadorId |-> store[i].usuarioCreadorId,
                  createdAt |-> store[i].createdAt] : i \in ids}
    IN  {FirstOf(s, limit) :
            s \in {t \in Orderings(rows) :
                      \A i, j \in 1..Len(t) : i < j => t[i].createdAt >= t[j].createdAt}}

\* GROUP BY productoId ORDER BY COUNT DESC LIMIT limit
statsService_getTopProducts(store, userRolId, userId, limit, filters) ==
    LET ids == selectedIn(store, statsBuildWhereClause(userRolId, userId, filters))
        of(p) == {i \in ids : store[i].productoId = p}
        groups == {[productoId |-> p,
                    salesCount |-> Cardinality(of(p)),
                    totalAmount |-> SumIn(store, of(p), 0)] :
                   p \in {store[i].productoId : i \in ids}}
    IN  {FirstOf(s, limit) :
            s \in {t \in Orderings(groups) :
                      \A i, j \in 1..Len(t) : i < j => t[i].salesCount >= t[j].salesCount}}

\* salesByAdvisor is a key of the answer for an Admin only
statsService_getComprehensiveDashboard(store, userRolId, userId, filters) ==
    {[metrics |-> m, salesByProduct |-> bp, salesByStatus |-> bs, recentSales |-> rs,
      topProducts |-> tp, hasSalesByAdvisor |-> userRolId = ROLES.ADMIN.ID,
      salesByAdvisor |-> ba] :
        m \in statsService_getDashboardMetrics(store, userRolId, userId, filters),
        bp \in getSalesGroupedByProduct(store, userRolId, userId, filters),
        bs \in getSalesGroupedByStatus(store, userRolId, userId, filters),
        rs \in statsService_getRecentSales(store, userRolId, userId, 5),
        tp \in statsService_getTopProducts(store, userRolId, userId, 5, filters),
        ba \in IF userRolId = ROLES.ADMIN.ID
               THEN getSalesGroupedByAdvisor(store, userRolId, filters) ELSE {<<>>}}

(***************************************************************************)
(* middleware/roleMiddleware.js                                            *)
(***************************************************************************)
\* the role check left out
isAdmin_anyone(userRolId) == TRUE

\* every role of the system taken for the Admin's
isAdmin_anyRole(userRolId) == userRolId \in {ROLES.ADMIN.ID, ROLES.ADVISOR.ID}

isAdmin(userRolId) == userRolId = ROLES.ADMIN.ID

(***************************************************************************)
(* User management: validationMiddleware.js, roleMiddleware.js,            *)
(* services/userService.js and services/authService.js                     *)
(***************************************************************************)
passwordRule(password) ==
    /\ password.len >= VALIDATION.PASSWORD_MIN_LENGTH
    /\ password.len <= VALIDATION.PASSWORD_MAX_LENGTH
    /\ password.mixed

nameRule(nombre) ==
    nombre.len >= VALIDATION.NAME_MIN_LENGTH /\ nombre.len <= VALIDATION.NAME_MAX_LENGTH

validateUserCreate(body) ==
    /\ body.nombre # NoNombre /\ nameRule(body.nombre)
    /\ body.email # NoEmail /\ body.email.wellFormed
    /\ body.password # NoPassword /\ passwordRule(body.password)
    /\ IsNum(body.rolId) /\ body.rolId.v >= 1

validateUserUpdate(body) ==
    /\ (body.nombre # NoNombre => nameRule(body.nombre))
    /\ (body.email # NoEmail => body.email.wellFormed)
    /\ (body.password # NoPassword => passwordRule(body.password))
    /\ (body.rolId # Undefined => IsNum(body.rolId) /\ body.rolId.v >= 1)

\* .trim() and .normalizeEmail(): the body as the controller receives it
sanitized(body) == [body EXCEPT !.email = IF body.email = NoEmail THEN NoEmail
                                          ELSE lowerTrim(body.email)]

\* the ownership check left out
isOwnerOrAdmin_anyone(userRolId, userId, resourceOwnerId) == TRUE

isOwnerOrAdmin(userRolId, userId, resourceOwnerId) ==
    userRolId = ROLES.ADMIN.ID \/ userId = resourceOwnerId

validRoles == {ROLES.ADMIN.ID, ROLES.ADVISOR.ID}

\* User.findOne({ where: { email, id: { [Op.ne]: id } } }); id 0 excludes none
existingUser(email, id) ==
    \E i \in DOMAIN users : i # id /\ users[i].email = email

\* no unique index on usuarios.email
uniqueEmailViolated_noIndex(email, id) == FALSE

\* the unique index on usuarios.email refuses a write that would give row id
\* the email of another row
uniqueEmailViolated(email, id) ==
    \E i \in DOMAIN users : i # id /\ users[i].email = email

\* createNewUser up to its existence check: the error thrown, or 0
createNewUser_check(userData) ==
    IF \/ userData.nombre = NoNombre \/ userData.nombre.len = 0
       \/ userData.email = NoEmail
       \/ userData.password = NoPassword \/ userData.password.len = 0
       \/ ~Truthy(userData.rolId)
         THEN ValidationError
    ELSE IF userData.rolId.v \notin validRoles THEN ValidationError
    ELSE IF existingUser(lowerTrim(userData.email), 0) THEN DuplicateEntryError
    ELSE 0

\* the row User.create is given; the beforeCreate hook hashes the password
createdUserRow(userData) ==
    [rolId |-> userData.rolId.v,
     nombre |-> userData.nombre,
     email |-> lowerTrim(userData.email),
     password |-> Hash(userData.password)]

\* updateData of updateUserById
userUpdateData(id, userData) ==
    [nombre |-> userData.nombre,
     email |-> IF userData.email # NoEmail /\ lowerTrim(userData.email) # users[id].email
               THEN lowerTrim(userData.email) ELSE NoEmail,
     password |-> userData.password,
     rolId |-> userData.rolId]

emptyUpdateData == [nombre |-> NoNombre, email |-> NoEmail, password |-> NoPassword,
                    rolId |-> Undefined]

\* updateUserById up to user.update: the error thrown, or 0
updateUserById_check(id, userData) ==
    IF id \notin DOMAIN users THEN NotFoundError
    ELSE IF /\ userData.email # NoEmail
            /\ lowerTrim(userData.email) # users[id].email
            /\ existingUser(lowerTrim(userData.email), id)
         THEN DuplicateEntryError
    ELSE IF userData.rolId # Undefined /\ userData.rolId.v \notin validRoles
         THEN ValidationError
    ELSE IF userUpdateData(id, userData) = emptyUpdateData THEN ValidationError
    ELSE 0

\* user.update(updateData); the beforeUpdate hook hashes a changed password
updatedUserRow(user, updateData) ==
    [rolId |-> IF updateData.rolId # Undefined THEN updateData.rolId.v ELSE user.rolId,
     nombre |-> IF updateData.nombre # NoNombre THEN updateData.nombre ELSE user.nombre,
     email |-> IF updateData.email # NoEmail THEN updateData.email ELSE user.email,
     password |-> IF updateData.password # NoPassword THEN Hash(updateData.password)
                  ELSE user.password]

\* the check of the caller's own id left out
deletesOwnAccount_never(id, currentUserId) == FALSE

\* 'You cannot delete your own account'
deletesOwnAccount(id, currentUserId) == id = currentUserId

\* ventas.usuarioCreadorId and usuarioActualizadorId: ON DELETE RESTRICT
\* the user columns of ventas without their foreign keys
referencedBySale_noForeignKey(id) == FALSE

\* ventas.usuarioCreadorId and ventas.usuarioActualizadorId reference
\* usuarios(id) ON DELETE RESTRICT
referencedBySale(id) ==
    \E i \in DOMAIN sales :
        sales[i].usuarioCreadorId = id \/ sales[i].usuarioActualizadorId = id

\* deleteUserById: the error thrown, or 0
deleteUserById_check(id) ==
    IF id \notin DOMAIN users THEN NotFoundError
    ELSE IF referencedBySale(id) THEN SequelizeForeignKeyConstraintError
    ELSE 0

\* findUserById: the user without its password
formatUser(id) ==
    [id |-> id, nombre |-> users[id].nombre, email |-> users[id].email,
     rolId |-> users[id].rolId]

\* the ids of the users findAllUsers selects, newest first, and a page of
\* them: createdAt grows with the id
findAllUsers(filters, pagination) ==
    LET ids == {i \in DOMAIN users :
                   Truthy(filters.rolId) => users[i].rolId = filters.rolId.v}
        page == IF pagination.page # Undefined THEN pagination.page.v ELSE 1
        limit == IF pagination.limit # Undefined THEN pagination.limit.v ELSE 10
        offset == (page - 1) * limit
        rows == CHOOSE r \in Orderings(ids) :
                    \A i, j \in 1..Len(r) : i < j => r[i] > r[j]
    IN  [users |-> SubSeq(rows, offset + 1, Min(offset + limit, Len(rows))),
         total |-> Cardinality(ids)]

\* changeUserPassword up to user.save: the error thrown, or 0
changeUserPassword_check(userId, currentPassword, newPassword) ==
    IF currentPassword.len = 0 \/ newPassword.len = 0 THEN ValidationError
    ELSE IF userId \notin DOMAIN users THEN AuthenticationError
    ELSE IF ~comparePassword(currentPassword, users[userId].password)
         THEN AuthenticationError
    ELSE 0

(***************************************************************************)
(* Inputs                                                                  *)
(***************************************************************************)
\* a consumer credit of 5.00 at 15.50 %, closed
BaseBody == [productoId |-> Num(1), cupoSolicitado |-> Num(500), franquiciaId |-> Undefined,
             tasa |-> Num(1550), estado |-> "Finalizado"]

CreateBodies ==
    [productoId : {Num(1), Num(2), Num(3), Num(4)},
     cupoSolicitado : {Num(500)},
     franquiciaId : {Undefined, Num(2)},
     tasa : {Undefined, Num(1550)},
     estado : {"Finalizado"}]
    \cup {[BaseBody EXCEPT !.estado = NoEstado],
          [BaseBody EXCEPT !.estado = "Abierto"],
          [BaseBody EXCEPT !.estado = "Pendiente"],
          [BaseBody EXCEPT !.cupoSolicitado = Num(0)],
          [BaseBody EXCEPT !.productoId = Undefined],
          [BaseBody EXCEPT !.tasa = Num(10001)],
          [BaseBody EXCEPT !.tasa = Num(0)],
          [BaseBody EXCEPT !.tasa = Num(10000)],
          [BaseBody EXCEPT !.tasa = Num(-1)],
          [BaseBody EXCEPT !.productoId = Num(2), !.estado = NoEstado],
          [BaseBody EXCEPT !.productoId = Num(3), !.tasa = Undefined, !.franquiciaId = Num(2),
                           !.estado = NoEstado],
          [BaseBody EXCEPT !.productoId = Num(3), !.tasa = Undefined, !.franquiciaId = Num(9)],
          [BaseBody EXCEPT !.productoId = Num(3), !.tasa = Null, !.franquiciaId = Num(1)]}

NoPatch == [productoId |-> Undefined, cupoSolicitado |-> Undefined,
            franquiciaId |-> Undefined, tasa |-> Undefined, estado |-> NoEstado]

UpdateBodies ==
    {NoPatch,
     [NoPatch EXCEPT !.productoId = Num(1)],
     [NoPatch EXCEPT !.productoId = Num(4)],
     [NoPatch EXCEPT !.cupoSolicitado = Num(500)],
     [NoPatch EXCEPT !.cupoSolicitado = Num(0)],
     [NoPatch EXCEPT !.franquiciaId = Num(9)],
     [NoPatch EXCEPT !.franquiciaId = Null],
     [NoPatch EXCEPT !.tasa = Num(10001)],
     [NoPatch EXCEPT !.estado = "Finalizado"]}

\* the ids a request names: the rows ever inserted and one id never used
IdParams == 1..(MaxSales + 1)

NoQuery == [productoId |-> Undefined, estado |-> NoEstado, startDate |-> Undefined,
            endDate |-> Undefined, usuarioCreadorId |-> Undefined, page |-> Undefined,
            limit |-> Undefined]

Queries ==
    {[NoQuery EXCEPT !.productoId = p, !.usuarioCreadorId = c, !.limit = l] :
        p \in {Undefined, Num(3)}, c \in {Undefined, Num(2), Num(3)}, l \in {Undefined, Num(1)}}
    \cup {[NoQuery EXCEPT !.estado = "Finalizado"],
          [NoQuery EXCEPT !.estado = "Abierto"],
          [NoQuery EXCEPT !.startDate = Num(2)],
          [NoQuery EXCEPT !.endDate = Num(1)],
          [NoQuery EXCEPT !.startDate = Num(2), !.endDate = Num(1)],
          [NoQuery EXCEPT !.page = Num(2), !.limit = Num(1)],
          [NoQuery EXCEPT !.page = Num(0)],
          [NoQuery EXCEPT !.limit = Num(101)]}

\* the queries of GET /api/sales/total
TotalQueries ==
    {q \in Queries : q.usuarioCreadorId = Undefined /\ q.page = Undefined
                     /\ q.limit = Undefined}
    \cup {[NoQuery EXCEPT !.usuarioCreadorId = Num(2)]}

NoPeriod == "undefined"

NoStatsQuery == [startDate |-> Undefined, endDate |-> Undefined, limit |-> Undefined,
                 period |-> NoPeriod]

\* the queries of the statistics routes
StatsQueries ==
    {NoStatsQuery,
     [NoStatsQuery EXCEPT !.startDate = Num(2)],
     [NoStatsQuery EXCEPT !.endDate = Num(1)],
     [NoStatsQuery EXCEPT !.startDate = Num(2), !.endDate = Num(1)],
     [NoStatsQuery EXCEPT !.limit = Num(1)],
     [NoStatsQuery EXCEPT !.period = "day"],
     [NoStatsQuery EXCEPT !.period = "month"],
     [NoStatsQuery EXCEPT !.period = "year"]}

\* the sales the statistics are taken over: a consumer credit of 5.00, a
\* payroll credit of 3.01 and a credit card of 3.01
StatsBodies ==
    {BaseBody,
     [BaseBody EXCEPT !.productoId = Num(2), !.cupoSolicitado = Num(301),
                      !.estado = "Abierto"],
     [BaseBody EXCEPT !.productoId = Num(3), !.cupoSolicitado = Num(301),
                      !.tasa = Undefined, !.franquiciaId = Num(2), !.estado = "En Proceso"]}

\* a new advisor
BaseUser == [nombre |-> Nombre("Cyd", 3), email |-> Email("cyd"),
             password |-> Password("Passw0rd", 8, TRUE), rolId |-> Num(2)]

UserCreateBodies ==
    {BaseUser,
     [BaseUser EXCEPT !.email = [Email("ana") EXCEPT !.upper = TRUE, !.padded = TRUE]],
     [BaseUser EXCEPT !.email = [Email("x") EXCEPT !.wellFormed = FALSE]],
     [BaseUser EXCEPT !.password = Password("abc", 3, FALSE)],
     [BaseUser EXCEPT !.rolId = Num(3)],
     [BaseUser EXCEPT !.nombre = NoNombre]}

NoUserPatch == [nombre |-> NoNombre, email |-> NoEmail, password |-> NoPassword,
                rolId |-> Undefined]

UserUpdateBodies ==
    {NoUserPatch,
     [NoUserPatch EXCEPT !.email = [Email("ana") EXCEPT !.padded = TRUE]],
     [NoUserPatch EXCEPT !.password = Password("Passw0rd", 8, TRUE)],
     [NoUserPatch EXCEPT !.rolId = Num(1)],
     [NoUserPatch EXCEPT !.rolId = Num(2)],
     [NoUserPatch EXCEPT !.rolId = Num(3)],
     [NoUserPatch EXCEPT !.nombre = Nombre("ab", 2)]}

\* the bodies of the requests that race for an email
EmailCreateBodies ==
    {BaseUser, [BaseUser EXCEPT !.email = [Email("cyd") EXCEPT !.upper = TRUE]]}

EmailUpdateBodies ==
    {[NoUserPatch EXCEPT !.email = [Email("cyd") EXCEPT !.padded = TRUE]],
     [NoUserPatch EXCEPT !.email = Email("ana")]}

PasswordBodies ==
    {[currentPassword |-> SeedPassword, newPassword |-> Password("Passw0rd", 8, TRUE)],
     [currentPassword |-> Password("Wrong123", 8, TRUE),
      newPassword |-> Password("Passw0rd", 8, TRUE)],
     [currentPassword |-> NoPassword, newPassword |-> Password("Passw0rd", 8, TRUE)],
     [currentPassword |-> SeedPassword, newPassword |-> Password("abc", 3, FALSE)]}

\* the user ids a request names or is made by: the rows ever inserted and
\* one id never used
UserIdParams == 1..(MaxUserId + 1)

Callers == 1..MaxUserId

UserQueries ==
    {[rolId |-> Undefined, page |-> Undefined, limit |-> Undefined],
     [rolId |-> Num(2), page |-> Undefined, limit |-> Num(1)],
     [rolId |-> Undefined, page |-> Num(0), limit |-> Undefined]}

(***************************************************************************)
(* State                                                                   *)
(***************************************************************************)
(***************************************************************************)
(* middleware/authMiddleware.js and services/authService.js                *)
(***************************************************************************)
\* the payload authenticateUser signs into the token of user u at the first
\* login after the record was stored: a seeded user with the seeded role,
\* a created user as an Advisor
tokenPayload(u) ==
    [id |-> u,
     rolId |-> IF u \in DOMAIN SeedUsers THEN SeedUsers[u].rolId ELSE ROLES.ADVISOR.ID]

\* req.user taken from the claims of the token, the user not loaded
verifyAuth_fromClaims(u) == [ok |-> TRUE, rolId |-> tokenPayload(u).rolId]

\* verifyAuth for a valid token whose id is u: User.findByPk(decoded.id);
\* no user, an AuthenticationError; else req.user is the stored record
verifyAuth(u) ==
    IF u \in DOMAIN users THEN [ok |-> TRUE, rolId |-> users[u].rolId]
    ELSE [ok |-> FALSE, rolId |-> 0]

(***************************************************************************)
(* frontend/src/store/slices/authSlice.js                                  *)
(***************************************************************************)
\* the token and the user a login answers with
Token == [t |-> "string", v |-> 1]
LoggedUser == [t |-> "object", v |-> 1]
NoError == Null
LoginFailed == [t |-> "string", v |-> 2]

\* initialState, evaluated when the module is loaded
initialState(item) ==
    [user |-> Null, token |-> item, isAuthenticated |-> item # Null, loading |-> FALSE,
     error |-> NoError]

\* the state a reducer that clears the session leaves; each of them also
\* removes the token item of localStorage
cleared(state, error) ==
    [state EXCEPT !.loading = FALSE, !.isAuthenticated = FALSE, !.user = Null,
                  !.token = Null, !.error = error]

resetAuthReducer(state) == cleared(state, NoError)

login_pending(state) == [state EXCEPT !.loading = TRUE, !.error = NoError]

login_fulfilled(state) ==
    [state EXCEPT !.loading = FALSE, !.isAuthenticated = TRUE, !.user = LoggedUser,
                  !.token = Token, !.error = NoError]

login_rejected(state) == cleared(state, LoginFailed)

logout_pending(state) == [state EXCEPT !.loading = TRUE]

logout_fulfilled(state) == cleared(state, NoError)

logout_rejected(state) == cleared(state, NoError)

verifyToken_pending(state) == [state EXCEPT !.loading = TRUE, !.error = NoError]

\* sets the user and isAuthenticated; the token is left as it is
verifyToken_fulfilled(state) ==
    [state EXCEPT !.loading = FALSE, !.isAuthenticated = TRUE, !.user = LoggedUser,
                  !.error = NoError]

verifyToken_rejected(state) == cleared(state, state.error)

Init ==
    /\ auth = initialState(Null)
    /\ thunks = {}
    /\ localStorage = Null
    /\ users = SeedUsers
    /\ nextUserId = 4
    /\ pending = <<>>
    /\ sales = <<>>
    /\ nextId = 1
    /\ last = Idle

\* the latest createdAt of the table: the clock does not run backwards
Latest == IF DOMAIN sales = {} THEN 1
          ELSE CHOOSE t \in Times : /\ \E i \in DOMAIN sales : sales[i].createdAt = t
                                    /\ \A i \in DOMAIN sales : sales[i].createdAt <= t

(***************************************************************************)
(* routes/saleRoutes.js and controllers/saleController.js                  *)
(***************************************************************************)
\* POST /api/sales: verifyAuth, validateSaleCreate, createSale
createSale(u, body, now) ==
    /\ last = Idle
    /\ UNCHANGED frontend
    /\ nextId <= MaxSales
    /\ verifyAuth(u).ok
    /\ now >= Latest
    /\ LET out == IF ~validateSaleCreate(body) THEN Thrown(ValidationError)
                  ELSE createNewSale(body, u, now)
       IN /\ sales' = out.sales
          /\ nextId' = out.nextId
          /\ last' = [op |-> "createSale", user |-> u, body |-> body,
                      status |-> out.status, id |-> out.id]
    /\ UNCHANGED userState

\* PUT /api/sales/:id: verifyAuth, validateId, validateSaleUpdate, updateSale
updateSale(u, id, body) ==
    /\ last = Idle
    /\ UNCHANGED frontend
    /\ verifyAuth(u).ok
    /\ LET out == IF ~validateId(id) \/ ~validateSaleUpdate(body)
                  THEN Thrown(ValidationError)
                  ELSE updateSaleById(id, body, verifyAuth(u).rolId, u)
       IN /\ sales' = out.sales
          /\ last' = [op |-> "updateSale", user |-> u, id |-> id, body |-> body,
                      status |-> out.status]
    /\ UNCHANGED <<userState, nextId>>

\* DELETE /api/sales/:id: verifyAuth, validateId, deleteSale
deleteSale(u, id) ==
    /\ last = Idle
    /\ UNCHANGED frontend
    /\ verifyAuth(u).ok
    /\ LET out == IF ~validateId(id) THEN Thrown(ValidationError)
                  ELSE deleteSaleById(id, verifyAuth(u).rolId, u)
           \* the service returned: the controller calls deletedResponse
           status == IF out.status = HTTP_STATUS.OK /\ "deletedResponse" \notin responsesExports
                     THEN TypeError ELSE out.status
       IN /\ sales' = out.sales
          /\ last' = [op |-> "deleteSale", user |-> u, id |-> id, status |-> status]
    /\ UNCHANGED <<userState, nextId>>

\* GET /api/sales/:id: verifyAuth, validateId, getSaleById
getSaleById(u, id) ==
    /\ last = Idle
    /\ UNCHANGED frontend
    /\ verifyAuth(u).ok
    /\ LET out == IF ~validateId(id) THEN Thrown(ValidationError)
                  ELSE findSaleById(id, verifyAuth(u).rolId, u)
       IN last' = [op |-> "getSaleById", user |-> u, id |-> id, status |-> out.status,
                   data |-> IF out.status = HTTP_STATUS.OK THEN <<formatSale(id)>> ELSE <<>>]
    /\ UNCHANGED <<userState, sales, nextId>>

\* GET /api/sales: verifyAuth, validatePagination, validateDateRange, getAllSales
getAllSales(u, query) ==
    /\ last = Idle
    /\ UNCHANGED frontend
    /\ verifyAuth(u).ok
    /\ IF ~validatePagination(query) \/ ~validateDateRange(query)
       THEN last' = [op |-> "getAllSales", user |-> u, query |-> query,
                     status |-> ValidationError, items |-> <<>>, total |-> 0]
       ELSE \E rows \in createdAtDesc(selected(buildWhereClause(verifyAuth(u).rolId, u, query))) :
               LET out == findAllSales(query, verifyAuth(u).rolId, u, query, rows)
               IN last' = [op |-> "getAllSales", user |-> u, query |-> query,
                           status |-> out.status, items |-> out.items, total |-> out.total]
    /\ UNCHANGED <<userState, sales, nextId>>

\* the filters getTotalAmount builds from req.query: productoId, estado,
\* startDate and endDate
totalFilters(query) ==
    [NoQuery EXCEPT !.productoId = query.productoId, !.estado = query.estado,
                    !.startDate = query.startDate, !.endDate = query.endDate]

\* GET /api/sales/total: verifyAuth, validateDateRange, getTotalAmount
getTotalAmount(u, query) ==
    /\ last = Idle
    /\ UNCHANGED frontend
    /\ verifyAuth(u).ok
    /\ last' = IF ~validateDateRange(query)
               THEN [op |-> "getTotalAmount", user |-> u, query |-> query,
                     status |-> ValidationError, total |-> 0]
               ELSE [op |-> "getTotalAmount", user |-> u, query |-> query,
                     status |-> HTTP_STATUS.OK,
                     total |-> calculateTotalAmount(verifyAuth(u).rolId, u, totalFilters(query))]
    /\ UNCHANGED <<userState, sales, nextId>>

(***************************************************************************)
(* routes/statsRoutes.js and controllers/statsController.js                *)
(***************************************************************************)
\* the filters every statistics controller builds: startDate and endDate
statsFilters(query) ==
    [NoFilters EXCEPT !.startDate = query.startDate, !.endDate = query.endDate]

\* limit ? parseInt(limit) : 5
limitOr5(query) == IF Truthy(query.limit) THEN query.limit.v ELSE 5

StatsOps == {"getDashboardMetrics", "getComprehensiveDashboard", "getSalesByProduct",
             "getSalesByAdvisor", "getSalesByStatus", "getSalesByPeriod", "getRecentSales",
             "getTopProducts"}

Answers(status, results) == {[status |-> status, data |-> d] : d \in results}

\* the answers of a statistics route to a caller, over the table store:
\* the middleware of the route, then the controller
statsController(op, store, userRolId, userId, query) ==
    IF op = "getSalesByAdvisor" /\ ~isAdmin(userRolId)
         THEN Answers(AuthorizationError, {<<>>})
    ELSE IF op # "getRecentSales" /\ ~validateDateRange(query)
         THEN Answers(ValidationError, {<<>>})
    ELSE IF op = "getSalesByPeriod" /\ query.period \notin {"day", "week", "month"}
         THEN Answers(ValidationError, {<<>>})
    ELSE Answers(HTTP_STATUS.OK,
           CASE op = "getDashboardMetrics" ->
                    statsService_getDashboardMetrics(store, userRolId, userId,
                                                     statsFilters(query))
             [] op = "getComprehensiveDashboard" ->
                    statsService_getComprehensiveDashboard(store, userRolId, userId,
                                                           statsFilters(query))
             [] op = "getSalesByProduct" ->
                    getSalesGroupedByProduct(store, userRolId, userId, statsFilters(query))
             [] op = "getSalesByAdvisor" ->
                    getSalesGroupedByAdvisor(store, userRolId, statsFilters(query))
             [] op = "getSalesByStatus" ->
                    getSalesGroupedByStatus(store, userRolId, userId, statsFilters(query))
             [] op = "getSalesByPeriod" ->
                    getSalesGroupedByPeriod(store, query.period, userRolId, userId,
                                            statsFilters(query))
             [] op = "getRecentSales" ->
                    statsService_getRecentSales(store, userRolId, userId, limitOr5(query))
             [] op = "getTopProducts" ->
                    statsService_getTopProducts(store, userRolId, userId, limitOr5(query),
                                                statsFilters(query)))

\* the handling of one statistics request: one of its answers is given
statsRequest(op, u, query) ==
    /\ last = Idle
    /\ UNCHANGED frontend
    /\ verifyAuth(u).ok
    /\ \E a \in statsController(op, sales, verifyAuth(u).rolId, u, query) :
          last' = [op |-> op, user |-> u, query |-> query, status |-> a.status,
                   data |-> a.data]
    /\ UNCHANGED <<userState, sales, nextId>>

\* GET /api/stats/dashboard: verifyAuth, validateDateRange
getDashboardMetrics(u, query) == statsRequest("getDashboardMetrics", u, query)

\* GET /api/stats/comprehensive: verifyAuth, validateDateRange
getComprehensiveDashboard(u, query) == statsRequest("getComprehensiveDashboard", u, query)

\* GET /api/stats/by-product: verifyAuth, validateDateRange
getSalesByProduct(u, query) == statsRequest("getSalesByProduct", u, query)

\* GET /api/stats/by-advisor: verifyAuth, isAdmin, validateDateRange
getSalesByAdvisor(u, query) == statsRequest("getSalesByAdvisor", u, query)

\* GET /api/stats/by-status: verifyAuth, validateDateRange
getSalesByStatus(u, query) == statsRequest("getSalesByStatus", u, query)

\* GET /api/stats/by-period: verifyAuth, validateDateRange
getSalesByPeriod(u, query) == statsRequest("getSalesByPeriod", u, query)

\* GET /api/stats/recent: verifyAuth
getRecentSales(u, query) == statsRequest("getRecentSales", u, query)

\* GET /api/stats/top-products: verifyAuth, validateDateRange
getTopProducts(u, query) == statsRequest("getTopProducts", u, query)

(***************************************************************************)
(* routes/userRoutes.js, controllers/userController.js and the             *)
(* change-password route of routes/authRoutes.js.  u is the authenticated  *)
(* caller: verifyAuth loaded req.user from usuarios.                       *)
(***************************************************************************)
Answer(op, u, id, body, status, data) ==
    [op |-> op, user |-> u, rolId |-> verifyAuth(u).rolId, id |-> id, body |-> body,
     status |-> status, data |-> data, phase |-> "check"]

\* the answer to a request in flight, after its write
Written(p, id, status) ==
    [op |-> p.op, user |-> p.user, rolId |-> p.rolId, id |-> id, body |-> p.body,
     status |-> status, data |-> <<>>, phase |-> "write"]

Waiting(op, u, id, body, data) ==
    [op |-> op, user |-> u, rolId |-> verifyAuth(u).rolId, id |-> id, body |-> body,
     data |-> data]

Without(k) == [j \in 1..(Len(pending) - 1) |-> IF j < k THEN pending[j] ELSE pending[j + 1]]

\* GET /api/users: verifyAuth, isAdmin, validatePagination, getAllUsers
getAllUsers(u, query) ==
    /\ last = Idle
    /\ UNCHANGED frontend
    /\ verifyAuth(u).ok
    /\ LET status == IF ~isAdmin(verifyAuth(u).rolId) THEN AuthorizationError
                     ELSE IF ~validatePagination(query) THEN ValidationError
                     ELSE HTTP_STATUS.OK
       IN last' = Answer("getAllUsers", u, 0, query, status,
                         IF status = HTTP_STATUS.OK
                         THEN findAllUsers(query, query).users ELSE <<>>)
    /\ UNCHANGED <<userState, sales, nextId>>

\* GET /api/users/:id: verifyAuth, validateId, isOwnerOrAdmin, getUserById
getUserById(u, id) ==
    /\ last = Idle
    /\ UNCHANGED frontend
    /\ verifyAuth(u).ok
    /\ LET status == IF ~validateId(id) THEN ValidationError
                     ELSE IF ~isOwnerOrAdmin(verifyAuth(u).rolId, u, id) THEN AuthorizationError
                     ELSE IF id \notin DOMAIN users THEN NotFoundError
                     ELSE HTTP_STATUS.OK
       IN last' = Answer("getUserById", u, id, NoUserPatch, status,
                         IF status = HTTP_STATUS.OK THEN <<formatUser(id)>> ELSE <<>>)
    /\ UNCHANGED <<userState, sales, nextId>>

\* POST /api/users: verifyAuth, isAdmin, validateUserCreate, createUser, up
\* to the existence check of createNewUser; inFlight is the number of
\* requests the database serves at once
createUser(u, body, inFlight) ==
    /\ last = Idle
    /\ UNCHANGED frontend
    /\ verifyAuth(u).ok
    /\ Len(pending) < inFlight
    /\ nextUserId <= MaxUserId
    /\ LET err == IF ~isAdmin(verifyAuth(u).rolId) THEN AuthorizationError
                  ELSE IF ~validateUserCreate(body) THEN ValidationError
                  ELSE createNewUser_check(sanitized(body))
       IN IF err # 0
          THEN /\ last' = Answer("createUser", u, 0, body, err, <<>>)
               /\ pending' = pending
          ELSE /\ pending' = Append(pending, Waiting("createUser", u, 0, body,
                                                     sanitized(body)))
               /\ last' = last
    /\ UNCHANGED <<users, nextUserId, sales, nextId>>

\* User.create of a creation in flight, and the answer
createUserWrite(k) ==
    /\ last = Idle
    /\ UNCHANGED frontend
    /\ k \in 1..Len(pending)
    /\ pending[k].op = "createUser"
    /\ LET p == pending[k]
           row == createdUserRow(p.data)
       IN IF uniqueEmailViolated(row.email, 0)
          THEN /\ last' = Written(p, 0, SequelizeUniqueConstraintError)
               /\ UNCHANGED <<users, nextUserId>>
          ELSE /\ nextUserId <= MaxUserId
               /\ users' = users @@ (nextUserId :> row)
               /\ nextUserId' = nextUserId + 1
               /\ last' = Written(p, nextUserId, HTTP_STATUS.CREATED)
    /\ pending' = Without(k)
    /\ UNCHANGED <<sales, nextId>>

\* PUT /api/users/:id: verifyAuth, validateId, isOwnerOrAdmin,
\* validateUserUpdate, updateUser, up to user.update of updateUserById
updateUser(u, id, body, inFlight) ==
    /\ last = Idle
    /\ UNCHANGED frontend
    /\ verifyAuth(u).ok
    /\ Len(pending) < inFlight
    /\ LET err == IF ~validateId(id) THEN ValidationError
                  ELSE IF ~isOwnerOrAdmin(verifyAuth(u).rolId, u, id) THEN AuthorizationError
                  ELSE IF ~validateUserUpdate(body) THEN ValidationError
                  ELSE updateUserById_check(id, sanitized(body))
       IN IF err # 0
          THEN /\ last' = Answer("updateUser", u, id, body, err, <<>>)
               /\ pending' = pending
          ELSE /\ pending' = Append(pending, Waiting("updateUser", u, id, body,
                                                     userUpdateData(id, sanitized(body))))
               /\ last' = last
    /\ UNCHANGED <<users, nextUserId, sales, nextId>>

\* user.update of an update in flight, and the answer; the row may have
\* been deleted meanwhile: the update writes nothing and the reload of the
\* user finds null, whose id the service reads
updateUserWrite(k) ==
    /\ last = Idle
    /\ UNCHANGED frontend
    /\ k \in 1..Len(pending)
    /\ pending[k].op = "updateUser"
    /\ LET p == pending[k]
       IN IF p.id \notin DOMAIN users
          THEN /\ last' = Written(p, p.id, TypeError)
               /\ users' = users
          ELSE IF p.data.email # NoEmail /\ uniqueEmailViolated(p.data.email, p.id)
          THEN /\ last' = Written(p, p.id, SequelizeUniqueConstraintError)
               /\ users' = users
          ELSE /\ users' = [users EXCEPT ![p.id] = updatedUserRow(users[p.id], p.data)]
               /\ last' = Written(p, p.id, HTTP_STATUS.OK)
    /\ pending' = Without(k)
    /\ UNCHANGED <<nextUserId, sales, nextId>>

\* DELETE /api/users/:id: verifyAuth, validateId, isAdmin, deleteUser
deleteUser(u, id) ==
    /\ last = Idle
    /\ UNCHANGED frontend
    /\ verifyAuth(u).ok
    /\ LET status == IF ~validateId(id) THEN ValidationError
                     ELSE IF ~isAdmin(verifyAuth(u).rolId) THEN AuthorizationError
                     ELSE IF deletesOwnAccount(id, u) THEN ValidationError
                     ELSE IF deleteUserById_check(id) # 0 THEN deleteUserById_check(id)
                     ELSE HTTP_STATUS.OK
       IN /\ last' = Answer("deleteUser", u, id, NoUserPatch, status, <<>>)
          /\ users' = IF status = HTTP_STATUS.OK
                      THEN [i \in DOMAIN users \ {id} |-> users[i]] ELSE users
    /\ UNCHANGED <<nextUserId, pending, sales, nextId>>

\* PUT /api/auth/change-password: verifyAuth, the validators of the route,
\* changePassword
changePassword(u, body) ==
    /\ last = Idle
    /\ UNCHANGED frontend
    /\ verifyAuth(u).ok
    /\ LET status == IF body.currentPassword.len = 0 \/ ~passwordRule(body.newPassword)
                          THEN ValidationError
                     ELSE IF changeUserPassword_check(u, body.currentPassword,
                                                      body.newPassword) # 0
                          THEN changeUserPassword_check(u, body.currentPassword,
                                                        body.newPassword)
                     ELSE HTTP_STATUS.OK
       IN /\ last' = Answer("changePassword", u, u, body, status, <<>>)
          /\ users' = IF status = HTTP_STATUS.OK
                      THEN [users EXCEPT ![u].password = Hash(body.newPassword)]
                      ELSE users
    /\ UNCHANGED <<nextUserId, pending, sales, nextId>>

\* res.status(...).json(...): the answer is sent and the request ends
(***************************************************************************)
(* Sale updates served at once: updateSaleById awaits Sale.findByPk, the   *)
(* catalog lookups and sale.update, and other requests run in between      *)
(***************************************************************************)
\* sale.update(updateData) writes the snapshot the request loaded
saleUpdate_wholeInstance(current, seen, saleData, userId) ==
    updatedRow(seen, saleData, userId)

\* sale.update(updateData): an UPDATE that sets the columns of updateData
\* on the stored row; seen is the row as Sale.findByPk loaded it
saleUpdate(current, seen, saleData, userId) ==
    updatedRow(current, saleData, userId)

\* PUT /api/sales/:id up to sale.update: the validators, Sale.findByPk, the
\* checks and the validation of the instance
updateSaleRequest(u, id, body) ==
    /\ last = Idle
    /\ UNCHANGED frontend
    /\ verifyAuth(u).ok
    /\ Len(pending) < MaxInFlight
    /\ LET out == IF ~validateId(id) \/ ~validateSaleUpdate(body)
                  THEN Thrown(ValidationError)
                  ELSE updateSaleById(id, body, verifyAuth(u).rolId, u)
       IN IF out.status # HTTP_STATUS.OK
          THEN /\ last' = [op |-> "updateSale", user |-> u, id |-> id, body |-> body,
                           status |-> out.status, phase |-> "check"]
               /\ pending' = pending
          ELSE /\ pending' = Append(pending, [op |-> "updateSale", user |-> u, id |-> id,
                                              body |-> body, seen |-> sales[id]])
               /\ last' = last
    /\ UNCHANGED <<users, nextUserId, sales, nextId>>

\* sale.update of an update in flight, the reload and the answer; after a
\* delete of the row the UPDATE matches no row and the reload finds null,
\* whose id the service reads; after a delete of the caller's record the
\* foreign key of usuarioActualizadorId refuses the UPDATE
updateSaleWrite(k) ==
    /\ last = Idle
    /\ UNCHANGED frontend
    /\ k \in 1..Len(pending)
    /\ pending[k].op = "updateSale"
    /\ LET p == pending[k]
       IN IF p.id \notin DOMAIN sales
          THEN /\ sales' = sales
               /\ last' = [op |-> "updateSale", user |-> p.user, id |-> p.id,
                           body |-> p.body, status |-> TypeError, phase |-> "write",
                           seen |-> p.seen]
          ELSE IF p.user \notin DOMAIN users
          THEN /\ sales' = sales
               /\ last' = [op |-> "updateSale", user |-> p.user, id |-> p.id,
                           body |-> p.body, status |-> SequelizeForeignKeyConstraintError,
                           phase |-> "write", seen |-> p.seen]
          ELSE /\ sales' = [sales EXCEPT ![p.id] = saleUpdate(sales[p.id], p.seen, p.body,
                                                              p.user)]
               /\ last' = [op |-> "updateSale", user |-> p.user, id |-> p.id,
                           body |-> p.body, status |-> HTTP_STATUS.OK, phase |-> "write",
                           seen |-> p.seen]
    /\ pending' = Without(k)
    /\ UNCHANGED <<users, nextUserId, nextId>>

\* any route, called with the token of a user whose record is gone:
\* verifyAuth passes an AuthenticationError on and no handler runs; tokens
\* exist for the ids that were ever stored
unauthenticated(u, op) ==
    /\ last = Idle
    /\ UNCHANGED frontend
    /\ u \in 1..(nextUserId - 1)
    /\ ~verifyAuth(u).ok
    /\ last' = [op |-> op, user |-> u, rolId |-> 0, id |-> 0, status |-> AuthenticationError,
                phase |-> "check"]
    /\ UNCHANGED <<userState, sales, nextId>>

(***************************************************************************)
(* getDashboardMetrics query by query: the service awaits Sale.count,      *)
(* Sale.sum and three more Sale.count calls, outside any transaction, and  *)
(* other requests run in between                                           *)
(***************************************************************************)
\* Sale.count({ where })
countIn(store, where) == Cardinality(selectedIn(store, where))

\* GET /api/stats/dashboard up to the first query: verifyAuth,
\* validateDateRange, the controller, buildWhereClause and the count of
\* totalSales
getDashboardMetricsRequest(u, query) ==
    /\ last = Idle
    /\ UNCHANGED frontend
    /\ verifyAuth(u).ok
    /\ Len(pending) < 1
    /\ IF ~validateDateRange(query)
       THEN /\ last' = [op |-> "getDashboardMetrics", user |-> u, query |-> query,
                        status |-> ValidationError, data |-> <<>>, phase |-> "check"]
            /\ pending' = pending
       ELSE LET whereClause == statsBuildWhereClause(verifyAuth(u).rolId, u,
                                                     statsFilters(query))
            IN /\ pending' = Append(pending,
                                    [op |-> "getDashboardMetrics", user |-> u,
                                     query |-> query, whereClause |-> whereClause,
                                     next |-> "totalAmount",
                                     totalSales |-> countIn(sales, whereClause),
                                     totalAmount |-> 0, open |-> 0, inProcess |-> 0])
               /\ last' = last
    /\ UNCHANGED <<users, nextUserId, sales, nextId>>

\* the next query of a getDashboardMetrics call in flight, on the table as
\* it is then; after the last one the metrics are assembled and answered
getDashboardMetricsQuery(k) ==
    /\ last = Idle
    /\ UNCHANGED frontend
    /\ k \in 1..Len(pending)
    /\ pending[k].op = "getDashboardMetrics"
    /\ LET p == pending[k]
           w == p.whereClause
       IN CASE p.next = "totalAmount" ->
                 /\ pending' = [pending EXCEPT
                                  ![k].totalAmount = SumIn(sales, selectedIn(sales, w), 0),
                                  ![k].next = "open"]
                 /\ last' = last
            [] p.next = "open" ->
                 /\ pending' = [pending EXCEPT
                                  ![k].open = countIn(sales, [w EXCEPT
                                                               !.estado = SALE_STATUSES.OPEN]),
                                  ![k].next = "inProcess"]
                 /\ last' = last
            [] p.next = "inProcess" ->
                 /\ pending' = [pending EXCEPT
                                  ![k].inProcess =
                                      countIn(sales, [w EXCEPT
                                                        !.estado = SALE_STATUSES.IN_PROCESS]),
                                  ![k].next = "finished"]
                 /\ last' = last
            [] p.next = "finished" ->
                 /\ pending' = Without(k)
                 /\ last' = [op |-> "getDashboardMetrics", user |-> p.user,
                             query |-> p.query, status |-> HTTP_STATUS.OK,
                             phase |-> "answer",
                             data |-> [totalSales |-> p.totalSales,
                                       totalAmount |-> p.totalAmount,
                                       averageAmount |-> Average(p.totalAmount, p.totalSales),
                                       salesByStatus |->
                                         [open |-> p.open,
                                          inProcess |-> p.inProcess,
                                          finished |->
                                            countIn(sales,
                                                    [w EXCEPT
                                                       !.estado = SALE_STATUSES.FINISHED])]]]
    /\ UNCHANGED <<users, nextUserId, sales, nextId>>

(***************************************************************************)
(* The thunks of the auth slice.  A thunk dispatches its pending action,   *)
(* sends its request with the token item of localStorage (the request      *)
(* interceptor of services/api.js) and dispatches fulfilled or rejected    *)
(* when the answer arrives; the answers of thunks in flight arrive in any  *)
(* order.                                                                  *)
(***************************************************************************)
ThunkTypes == {"login", "logout", "verifyToken"}

\* dispatch(login(credentials)), dispatch(logout()), dispatch(verifyToken())
dispatchThunk(type) ==
    /\ Cardinality(thunks) < MaxThunks
    /\ [type |-> type, sent |-> localStorage # Null] \notin thunks
    /\ thunks' = thunks \cup {[type |-> type, sent |-> localStorage # Null]}
    /\ auth' = CASE type = "login" -> login_pending(auth)
                 [] type = "logout" -> logout_pending(auth)
                 [] type = "verifyToken" -> verifyToken_pending(auth)
    /\ UNCHANGED <<localStorage, backend>>

\* POST /auth/login answered with the user and a token
loginFulfilled(th) ==
    /\ th \in thunks /\ th.type = "login"
    /\ thunks' = thunks \ {th}
    /\ auth' = login_fulfilled(auth)
    /\ localStorage' = Token
    /\ UNCHANGED backend

loginRejected(th) ==
    /\ th \in thunks /\ th.type = "login"
    /\ thunks' = thunks \ {th}
    /\ auth' = login_rejected(auth)
    /\ localStorage' = Null
    /\ UNCHANGED backend

\* POST /auth/logout answered; without a token the back end answers 401
logoutFulfilled(th) ==
    /\ th \in thunks /\ th.type = "logout" /\ th.sent
    /\ thunks' = thunks \ {th}
    /\ auth' = logout_fulfilled(auth)
    /\ localStorage' = Null
    /\ UNCHANGED backend

logoutRejected(th) ==
    /\ th \in thunks /\ th.type = "logout"
    /\ thunks' = thunks \ {th}
    /\ auth' = logout_rejected(auth)
    /\ localStorage' = Null
    /\ UNCHANGED backend

\* GET /auth/verify answered with the user of the token that was sent
verifyTokenFulfilled(th) ==
    /\ th \in thunks /\ th.type = "verifyToken" /\ th.sent
    /\ thunks' = thunks \ {th}
    /\ auth' = verifyToken_fulfilled(auth)
    /\ UNCHANGED <<localStorage, backend>>

verifyTokenRejected(th) ==
    /\ th \in thunks /\ th.type = "verifyToken"
    /\ thunks' = thunks \ {th}
    /\ auth' = verifyToken_rejected(auth)
    /\ localStorage' = Null
    /\ UNCHANGED backend

\* dispatch(resetAuth())
resetAuth ==
    /\ auth' = resetAuthReducer(auth)
    /\ localStorage' = Null
    /\ UNCHANGED <<thunks, backend>>

\* the page is loaded again: the store is built from initialState and the
\* answers of the requests of the old page are dropped
reload ==
    /\ auth' = initialState(localStorage)
    /\ thunks' = {}
    /\ UNCHANGED <<localStorage, backend>>

EndRequest ==
    /\ last # Idle
    /\ UNCHANGED frontend
    /\ last' = Idle
    /\ UNCHANGED <<userState, sales, nextId>>

Next ==
    \/ \E u \in UserIds, body \in CreateBodies, now \in Times : createSale(u, body, now)
    \/ \E u \in UserIds, id \in IdParams, body \in UpdateBodies : updateSale(u, id, body)
    \/ \E u \in UserIds, id \in IdParams : deleteSale(u, id)
    \/ \E u \in UserIds, id \in IdParams : getSaleById(u, id)
    \/ \E u \in UserIds, query \in Queries : getAllSales(u, query)
    \/ \E u \in UserIds, query \in TotalQueries : getTotalAmount(u, query)
    \/ EndRequest

Spec == Init /\ [][Next]_vars

\* the statistics routes, over the tables that creations fill
NextStats ==
    \/ \E u \in UserIds, body \in StatsBodies, now \in Times : createSale(u, body, now)
    \/ \E u \in UserIds, query \in StatsQueries : getDashboardMetrics(u, query)
    \/ \E u \in UserIds, query \in StatsQueries : getComprehensiveDashboard(u, query)
    \/ \E u \in UserIds, query \in StatsQueries : getSalesByProduct(u, query)
    \/ \E u \in UserIds, query \in StatsQueries : getSalesByAdvisor(u, query)
    \/ \E u \in UserIds, query \in StatsQueries : getSalesByStatus(u, query)
    \/ \E u \in UserIds, query \in StatsQueries : getSalesByPeriod(u, query)
    \/ \E u \in UserIds, query \in StatsQueries : getRecentSales(u, query)
    \/ \E u \in UserIds, query \in StatsQueries : getTopProducts(u, query)
    \/ EndRequest

SpecStats == Init /\ [][NextStats]_vars

\* the user routes, one request served at a time
NextUsers ==
    \/ \E u \in Callers, query \in UserQueries : getAllUsers(u, query)
    \/ \E u \in Callers, id \in UserIdParams : getUserById(u, id)
    \/ \E u \in Callers, body \in UserCreateBodies : createUser(u, body, 1)
    \/ \E k \in 1..MaxInFlight : createUserWrite(k)
    \/ \E u \in Callers, id \in UserIdParams, body \in UserUpdateBodies :
          updateUser(u, id, body, 1)
    \/ \E k \in 1..MaxInFlight : updateUserWrite(k)
    \/ \E u \in Callers, id \in UserIdParams : deleteUser(u, id)
    \/ \E u \in Callers, body \in PasswordBodies : changePassword(u, body)
    \/ EndRequest

SpecUsers == Init /\ [][NextUsers]_vars

\* user creations and updates that race for an email, MaxInFlight at a time
NextEmails ==
    \/ \E u \in Callers, body \in EmailCreateBodies : createUser(u, body, MaxInFlight)
    \/ \E k \in 1..MaxInFlight : createUserWrite(k)
    \/ \E u \in Callers, id \in UserIdParams, body \in EmailUpdateBodies :
          updateUser(u, id, body, MaxInFlight)
    \/ \E k \in 1..MaxInFlight : updateUserWrite(k)
    \/ EndRequest

SpecEmails == Init /\ [][NextEmails]_vars

\* the payloads of the racing sale updates
RaceCreateBodies == {BaseBody}

RaceUpdateBodies ==
    {NoPatch,
     [NoPatch EXCEPT !.cupoSolicitado = Num(900)],
     [NoPatch EXCEPT !.cupoSolicitado = Num(700), !.tasa = Num(1000)]}

\* the callers of the race, an Admin and an Advisor, and the ids they name:
\* the first sale and an id never used
RaceCallers == {1, 2}

RaceIds == {1, MaxSales + 1}

\* sale updates that race for a row, MaxInFlight at a time
NextSaleRace ==
    \/ \E u \in RaceCallers, body \in RaceCreateBodies, now \in Times :
          createSale(u, body, now)
    \/ \E u \in RaceCallers, id \in RaceIds, body \in RaceUpdateBodies :
          updateSaleRequest(u, id, body)
    \/ \E k \in 1..MaxInFlight : updateSaleWrite(k)
    \/ \E u \in RaceCallers, id \in RaceIds : deleteSale(u, id)
    \/ EndRequest

SpecSaleRace == Init /\ [][NextSaleRace]_vars

\* the role patches and the routes of the requests made while users are
\* deleted and roles are changed
AuthUpdateBodies ==
    {[NoUserPatch EXCEPT !.rolId = Num(1)], [NoUserPatch EXCEPT !.rolId = Num(2)]}

AuthRoutes == {"createSale", "getAllSales", "getAllUsers", "updateUser", "deleteUser"}

AuthUserQueries == {[rolId |-> Undefined, page |-> Undefined, limit |-> Undefined]}

\* requests made with the tokens of the seeded users while users are
\* deleted and roles are changed
NextAuth ==
    \/ \E u \in UserIds, id \in UserIds, body \in AuthUpdateBodies : updateUser(u, id, body, 1)
    \/ \E k \in 1..MaxInFlight : updateUserWrite(k)
    \/ \E u \in UserIds, id \in UserIds : deleteUser(u, id)
    \/ \E u \in UserIds, now \in Times : createSale(u, BaseBody, now)
    \/ \E u \in UserIds : getAllSales(u, NoQuery)
    \/ \E u \in UserIds, query \in AuthUserQueries : getAllUsers(u, query)
    \/ \E u \in UserIds, op \in AuthRoutes : unauthenticated(u, op)
    \/ EndRequest

SpecAuth == Init /\ [][NextAuth]_vars

\* the payloads of the sale updates made while users are deleted
RefUpdateBodies == {[NoPatch EXCEPT !.cupoSolicitado = Num(900)]}

\* the promotion that makes a second Admin
RefRoleBodies == {[NoUserPatch EXCEPT !.rolId = Num(1)]}

\* sale writes and user deletions, the sale updates MaxInFlight at a time
NextRefs ==
    \/ \E u \in UserIds : createSale(u, BaseBody, 1)
    \/ \E u \in UserIds, id \in RaceIds, body \in RefUpdateBodies :
          updateSaleRequest(u, id, body)
    \/ \E k \in 1..MaxInFlight : updateSaleWrite(k)
    \/ \E u \in UserIds, id \in RaceIds : deleteSale(u, id)
    \/ \E u \in UserIds, id \in UserIds, body \in RefRoleBodies : updateUser(u, id, body, 1)
    \/ \E k \in 1..MaxInFlight : updateUserWrite(k)
    \/ \E u \in UserIds, id \in UserIds : deleteUser(u, id)
    \/ \E u \in UserIds : unauthenticated(u, "createSale")
    \/ EndRequest

SpecRefs == Init /\ [][NextRefs]_vars

\* the queries of the dashboard calls that sale writes interleave with
DashboardQueries == {NoStatsQuery, [NoStatsQuery EXCEPT !.startDate = Num(2), !.endDate = Num(1)]}

\* dashboard metrics read query by query while sales are created and deleted
NextDashboard ==
    \/ \E u \in UserIds, body \in StatsBodies, now \in Times : createSale(u, body, now)
    \/ \E u \in UserIds, id \in IdParams : deleteSale(u, id)
    \/ \E u \in UserIds, query \in DashboardQueries : getDashboardMetricsRequest(u, query)
    \/ \E k \in 1..MaxInFlight : getDashboardMetricsQuery(k)
    \/ EndRequest

SpecDashboard == Init /\ [][NextDashboard]_vars

\* the thunks a browser can have in flight
Thunks == [type : ThunkTypes, sent : BOOLEAN]

\* the auth slice under any order of its actions
NextAuthSlice ==
    \/ \E type \in ThunkTypes : dispatchThunk(type)
    \/ \E th \in Thunks : loginFulfilled(th)
    \/ \E th \in Thunks : loginRejected(th)
    \/ \E th \in Thunks : logoutFulfilled(th)
    \/ \E th \in Thunks : logoutRejected(th)
    \/ \E th \in Thunks : verifyTokenFulfilled(th)
    \/ \E th \in Thunks : verifyTokenRejected(th)
    \/ resetAuth
    \/ reload

SpecAuthSlice == Init /\ [][NextAuthSlice]_vars

(***************************************************************************)
(* Properties                                                              *)
(***************************************************************************)
roleOf(u) == users[u].rolId

\* the step is the handling of a request named op
Handled(op) == last = Idle /\ last'.op = op

\* the step inserted exactly the row last'.id and touched no other row
InsertedOne ==
    /\ last'.id \notin DOMAIN sales
    /\ DOMAIN sales' = DOMAIN sales \cup {last'.id}
    /\ \A i \in DOMAIN sales : sales'[i] = sales[i]

\* the product-conditional rule of a row
ProductRule(row) ==
    /\ (row.productoId = PRODUCTS.CREDIT_CARD.ID
          => row.franquiciaId # Null /\ row.tasa = Null)
    /\ (isCreditOrPayroll(row.productoId)
          => row.tasa # Null /\ row.franquiciaId = Null)

\* C1: after any sequence of successful creates and updates every stored
\* sale satisfies the product-conditional rule (credit card: franchise
\* present and rate null; consumer credit or payroll: rate present and
\* franchise null).
C1_StoredSalesKeepProductRule ==
    \A i \in DOMAIN sales : ProductRule(sales[i])

\* C2: a creation whose product is Credit Card either fails with
\* ValidationFailure (400) and persists nothing, or persists a record with a
\* non-null franchiseId and a null rate.
C2_CreditCardCreate ==
    [][(Handled("createSale") /\ last'.body.productoId = Num(PRODUCTS.CREDIT_CARD.ID))
         => \/ last'.status = HTTP_STATUS.BAD_REQUEST /\ sales' = sales
            \/ /\ last'.status = HTTP_STATUS.CREATED
               /\ InsertedOne
               /\ sales'[last'.id].productoId = PRODUCTS.CREDIT_CARD.ID
               /\ sales'[last'.id].franquiciaId # Null
               /\ sales'[last'.id].tasa = Null]_vars

\* C3: a creation whose product is Consumer Credit or Free-Investment
\* Payroll either fails and persists nothing, or persists a record with a
\* non-null rate within [0,100] and a null franchiseId.
C3_CreditOrPayrollCreate ==
    [][(/\ Handled("createSale")
        /\ last'.body.productoId \in {Num(PRODUCTS.CONSUMER_CREDIT.ID),
                                      Num(PRODUCTS.FREE_INVESTMENT_PAYROLL.ID)})
         => \/ last'.status >= 400 /\ sales' = sales
            \/ /\ last'.status = HTTP_STATUS.CREATED
               /\ InsertedOne
               /\ sales'[last'.id].productoId = last'.body.productoId.v
               /\ IsNum(sales'[last'.id].tasa)
               /\ sales'[last'.id].tasa.v >= 0
               /\ sales'[last'.id].tasa.v <= 10000
               /\ sales'[last'.id].franquiciaId = Null]_vars

\* a payroll sale was created
C3_Witness ==
    /\ last.op = "createSale"
    /\ last.status = HTTP_STATUS.CREATED
    /\ last.body.productoId = Num(PRODUCTS.FREE_INVESTMENT_PAYROLL.ID)
    /\ sales[last.id].productoId = PRODUCTS.FREE_INVESTMENT_PAYROLL.ID

\* C4: every sale a list request of an Advisor U returns has
\* creatorUserId = U, in any store state and for any filters, a
\* creatorUserId filter naming another user included.
C4_AdvisorListsOwnSales ==
    (last.op = "getAllSales" /\ roleOf(last.user) = ROLES.ADVISOR.ID)
      => \A k \in DOMAIN last.items : last.items[k].usuarioCreadorId = last.user

\* an Advisor who asked for the sales of another user, who has one, was
\* answered with a sale
C4_Witness ==
    /\ last.op = "getAllSales"
    /\ roleOf(last.user) = ROLES.ADVISOR.ID
    /\ IsNum(last.query.usuarioCreadorId)
    /\ last.query.usuarioCreadorId.v # last.user
    /\ \E i \in DOMAIN sales : sales[i].usuarioCreadorId = last.query.usuarioCreadorId.v
    /\ Len(last.items) > 0

\* the sales that match the filters of a query as the caller gave them
Matching(query) ==
    {i \in DOMAIN sales :
        /\ (query.usuarioCreadorId # Undefined
              => sales[i].usuarioCreadorId = query.usuarioCreadorId.v)
        /\ (query.productoId # Undefined => sales[i].productoId = query.productoId.v)
        /\ (query.estado # NoEstado => sales[i].estado = query.estado)
        /\ (query.startDate # Undefined => sales[i].createdAt >= query.startDate.v)
        /\ (query.endDate # Undefined => sales[i].createdAt <= query.endDate.v)}

Max(a, b) == IF a >= b THEN a ELSE b

\* the number of rows of the page a query asks for, of n rows in all
PageSize(query, n) ==
    LET page == IF query.page = Undefined THEN 1 ELSE query.page.v
        limit == IF query.limit = Undefined THEN 10 ELSE query.limit.v
    IN  Min(limit, Max(0, n - (page - 1) * limit))

ForeignSaleOfAdvisor ==
    /\ last'.id \in DOMAIN sales
    /\ roleOf(last'.user) = ROLES.ADVISOR.ID
    /\ sales[last'.id].usuarioCreadorId # last'.user

\* C6 as claimed: an update of a sale by an Advisor who is not its creator
\* fails with AuthorizationFailure (403) for every patch, and the sale
\* record is unchanged.
C6_ForeignUpdateAlways403 ==
    [][(Handled("updateSale") /\ ForeignSaleOfAdvisor)
         => last'.status = HTTP_STATUS.FORBIDDEN /\ sales' = sales]_vars

\* C6 as amended: such an update fails for every patch and leaves the sale
\* record unchanged; the answer is AuthorizationFailure (403) when the patch
\* passes the input validation of the route and ValidationFailure (400)
\* when it does not.
C6_ForeignUpdateFails ==
    [][(Handled("updateSale") /\ ForeignSaleOfAdvisor)
         => /\ last'.status = IF validateSaleUpdate(last'.body)
                              THEN HTTP_STATUS.FORBIDDEN ELSE HTTP_STATUS.BAD_REQUEST
            /\ sales' = sales]_vars

\* an Advisor was refused (403) the update of a sale of another user
C6_Witness ==
    /\ last.op = "updateSale"
    /\ last.status = HTTP_STATUS.FORBIDDEN
    /\ roleOf(last.user) = ROLES.ADVISOR.ID
    /\ last.id \in DOMAIN sales
    /\ sales[last.id].usuarioCreadorId # last.user
    /\ last.body.cupoSolicitado = Num(500)

\* C7: getById fails with NotFound when the id does not exist, for any
\* caller; fails with Forbidden when the caller is an Advisor who did not
\* create the existing sale; and otherwise returns the sale, so an Admin is
\* never refused an existing sale.
C7_GetById ==
    last.op = "getSaleById"
      => IF last.id \notin DOMAIN sales
         THEN last.status = HTTP_STATUS.NOT_FOUND
         ELSE IF roleOf(last.user) = ROLES.ADVISOR.ID
                 /\ sales[last.id].usuarioCreadorId # last.user
              THEN last.status = HTTP_STATUS.FORBIDDEN /\ last.data = <<>>
              ELSE /\ last.status = HTTP_STATUS.OK
                   /\ Len(last.data) = 1
                   /\ last.data[1].id = last.id
                   /\ last.data[1].usuarioCreadorId = sales[last.id].usuarioCreadorId
                   /\ last.data[1].productoId = sales[last.id].productoId

\* an Admin read a sale created by an Advisor
C7_Witness ==
    /\ last.op = "getSaleById"
    /\ last.status = HTTP_STATUS.OK
    /\ roleOf(last.user) = ROLES.ADMIN.ID
    /\ roleOf(sales[last.id].usuarioCreadorId) = ROLES.ADVISOR.ID

\* C8: a DELETE of an existing sale by an Admin or by its creator removes
\* the sale and is answered 200; the only error answers are 404 and 403,
\* and an error answer leaves the sale store unchanged.
C8_DeleteAnswers ==
    [][Handled("deleteSale")
         => /\ (/\ last'.id \in DOMAIN sales
                /\ \/ roleOf(last'.user) = ROLES.ADMIN.ID
                   \/ sales[last'.id].usuarioCreadorId = last'.user)
                  => /\ last'.status = HTTP_STATUS.OK
                     /\ sales' = [i \in DOMAIN sales \ {last'.id} |-> sales[i]]
            /\ last'.status # HTTP_STATUS.OK
                  => /\ last'.status \in {HTTP_STATUS.NOT_FOUND, HTTP_STATUS.FORBIDDEN}
                     /\ sales' = sales]_vars

\* C9: creatorUserId keeps the value set at creation over every operation,
\* and after every successful create or update updaterUserId is the id of
\* the user who made that request.
C9_CreatorKeptUpdaterSet ==
    [][/\ \A i \in DOMAIN sales \cap DOMAIN sales' :
             sales'[i].usuarioCreadorId = sales[i].usuarioCreadorId
       /\ (Handled("createSale") /\ last'.status = HTTP_STATUS.CREATED)
             => /\ InsertedOne
                /\ sales'[last'.id].usuarioCreadorId = last'.user
                /\ sales'[last'.id].usuarioActualizadorId = last'.user
       /\ (Handled("updateSale") /\ last'.status = HTTP_STATUS.OK)
             => sales'[last'.id].usuarioActualizadorId = last'.user]_vars

\* an Admin updated a sale an Advisor created
C9_Witness ==
    /\ last.op = "updateSale"
    /\ last.status = HTTP_STATUS.OK
    /\ roleOf(last.user) = ROLES.ADMIN.ID
    /\ roleOf(sales[last.id].usuarioCreadorId) = ROLES.ADVISOR.ID
    /\ sales[last.id].usuarioActualizadorId = last.user

\* the fields of a creation payload are legal: the product and the
\* franchise exist, the amount is positive, a credit card names its
\* franchise and no rate, a credit or payroll names its rate in [0,100] and
\* no franchise
LegalCreation(body) ==
    /\ IsNum(body.productoId) /\ body.productoId.v \in ProductCatalog
    /\ IsNum(body.cupoSolicitado) /\ body.cupoSolicitado.v > 0
    /\ body.productoId.v = PRODUCTS.CREDIT_CARD.ID
          => /\ IsNum(body.franquiciaId) /\ body.franquiciaId.v \in FranchiseCatalog
             /\ ~IsNum(body.tasa)
    /\ isCreditOrPayroll(body.productoId.v)
          => /\ IsNum(body.tasa) /\ body.tasa.v >= 0 /\ body.tasa.v <= 10000
             /\ ~IsNum(body.franquiciaId)

\* C10: a valid creation whose payload gives no status succeeds and
\* persists a record with status Open and creatorUserId = updaterUserId =
\* the caller.
C10_CreateDefaultsToOpen ==
    (last.op = "createSale" /\ last.body.estado = NoEstado /\ LegalCreation(last.body))
      => /\ last.status = HTTP_STATUS.CREATED
         /\ last.id \in DOMAIN sales
         /\ sales[last.id].estado = SALE_STATUSES.OPEN
         /\ sales[last.id].usuarioCreadorId = last.user
         /\ sales[last.id].usuarioActualizadorId = last.user

\* a creation payload of a consumer credit or payroll that is valid but for
\* its rate, and names its status
OtherwiseValidCredit(body) ==
    /\ IsNum(body.productoId) /\ isCreditOrPayroll(body.productoId.v)
    /\ IsNum(body.cupoSolicitado) /\ body.cupoSolicitado.v > 0
    /\ ~IsNum(body.franquiciaId)
    /\ body.estado \in validStatusNames

\* C11: for an otherwise valid consumer credit or payroll creation, rate 0
\* and rate 100 are accepted and a record is persisted with that rate;
\* rate 100.01 and rate -0.01 are rejected with ValidationFailure.
C11_RateBoundaries ==
    (last.op = "createSale" /\ OtherwiseValidCredit(last.body) /\ IsNum(last.body.tasa))
      => /\ last.body.tasa.v \in {0, 10000}
              => /\ last.status = HTTP_STATUS.CREATED
                 /\ last.id \in DOMAIN sales
                 /\ sales[last.id].tasa = last.body.tasa
         /\ last.body.tasa.v \in {10001, -1} => last.status = ValidationError

RECURSIVE SumItems(_, _)
\* the requested amounts of the items of a list answer, added up
SumItems(items, k) ==
    IF k > Len(items) THEN 0 ELSE items[k].cupoSolicitado + SumItems(items, k + 1)

\* the filter set of a total-amount request, as a list query that asks for
\* the first page with the largest limit (more than the table can hold)
AsListQuery(query) ==
    [totalFilters(query) EXCEPT !.limit = Num(100)]

\* C12: the total of the total-amount operation equals the sum of
\* requestedAmount over all items the scoped list returns for the same
\* caller and filters (product, status, date range) with an unbounded
\* limit, and is 0 when that set is empty.
C12_TotalEqualsListSum ==
    (last.op = "getTotalAmount" /\ last.status = HTTP_STATUS.OK)
      => \A rows \in createdAtDesc(selected(
                buildWhereClause(roleOf(last.user), last.user, AsListQuery(last.query)))) :
            LET list == findAllSales(AsListQuery(last.query), roleOf(last.user), last.user,
                                     AsListQuery(last.query), rows)
            IN  /\ validatePagination(AsListQuery(last.query))
                /\ Len(list.items) = list.total
                /\ last.total = SumItems(list.items, 1)
                /\ (list.total = 0 => last.total = 0)

\* an Advisor is told the total of their own sale while a sale of another
\* user passes the same filters
C12_Witness ==
    /\ last.op = "getTotalAmount"
    /\ last.status = HTTP_STATUS.OK
    /\ roleOf(last.user) = ROLES.ADVISOR.ID
    /\ last.total > 0
    /\ \E i, j \in DOMAIN sales :
          /\ sales[i].usuarioCreadorId = last.user
          /\ sales[j].usuarioCreadorId # last.user
          /\ {i, j} \subseteq selected(buildWhereClause(ROLES.ADMIN.ID, last.user,
                                                        totalFilters(last.query)))

\* the table with the sales of user u only
OwnSales(u) ==
    [i \in {j \in DOMAIN sales : sales[j].usuarioCreadorId = u} |-> sales[i]]

\* C13: every statistic returned to an Advisor U depends only on the sales
\* created by U: over the table and over the table cut down to U's sales
\* each statistics route has the same answers for the same query, and the
\* answer U was given is one of them.  (Every table is met between two
\* requests, so the routes are compared there.)
C13_AdvisorStatsFromOwnSales ==
    /\ \A u \in UserIds, op \in StatsOps, query \in StatsQueries :
          (last = Idle /\ roleOf(u) = ROLES.ADVISOR.ID)
            => statsController(op, sales, roleOf(u), u, query)
                 = statsController(op, OwnSales(u), roleOf(u), u, query)
    /\ (last.op \in StatsOps /\ roleOf(last.user) = ROLES.ADVISOR.ID)
         => \E a \in statsController(last.op, OwnSales(last.user), roleOf(last.user),
                                     last.user, last.query) :
               a.status = last.status /\ (a.status = HTTP_STATUS.OK => a.data = last.data)

\* an Advisor with one sale is given the metrics of that sale while the
\* table holds a sale of another user
C13_Witness ==
    /\ last.op = "getDashboardMetrics"
    /\ last.status = HTTP_STATUS.OK
    /\ roleOf(last.user) = ROLES.ADVISOR.ID
    /\ last.query = NoStatsQuery
    /\ last.data.totalSales = 1
    /\ \E i \in DOMAIN sales : sales[i].usuarioCreadorId # last.user

\* C14: a non-admin caller who requests GET /stats/by-advisor receives a
\* successful answer with an empty result set, not an error.
C14_ByAdvisorEmptyForNonAdmin ==
    (last.op = "getSalesByAdvisor" /\ roleOf(last.user) # ROLES.ADMIN.ID)
      => last.status = HTTP_STATUS.OK /\ last.data = <<>>

\* C14 as the route answers: a non-admin caller who requests GET
\* /stats/by-advisor is refused with AuthorizationFailure (403), whatever
\* the query, and is given no data.
C14_ByAdvisorForbiddenForNonAdmin ==
    (last.op = "getSalesByAdvisor" /\ roleOf(last.user) # ROLES.ADMIN.ID)
      => last.status = AuthorizationError /\ last.data = <<>>

\* an Advisor who has a sale asks for the grouping by advisor
C14_Witness ==
    /\ last.op = "getSalesByAdvisor"
    /\ roleOf(last.user) = ROLES.ADVISOR.ID
    /\ \E i \in DOMAIN sales : sales[i].usuarioCreadorId = last.user

\* C15: a DELETE /users/:id by an Admin where :id is the Admin's own id
\* always fails with ValidationFailure (400), and the Admin's user record
\* still exists afterwards, as it was.
C15_AdminSelfDeleteFails ==
    [][(Handled("deleteUser") /\ last'.rolId = ROLES.ADMIN.ID /\ last'.id = last'.user)
         => /\ last'.status = ValidationError
            /\ last'.user \in DOMAIN users'
            /\ users' = users]_vars

\* an Admin was refused the deletion of their own account
C15_Witness ==
    /\ last.op = "deleteUser"
    /\ last.rolId = ROLES.ADMIN.ID
    /\ last.id = last.user
    /\ last.status = ValidationError
    /\ last.user \in DOMAIN users

\* C16: listing users, creating a user and deleting a user succeed only
\* when the caller is an Admin; the same request from an Advisor fails with
\* AuthorizationFailure (403) and leaves the user store unchanged.
C16_UserAdministrationByAdminOnly ==
    [][(last = Idle /\ last'.op \in {"getAllUsers", "createUser", "deleteUser"})
         => /\ last'.status \in {HTTP_STATUS.OK, HTTP_STATUS.CREATED}
                 => last'.rolId = ROLES.ADMIN.ID
            /\ last'.rolId = ROLES.ADVISOR.ID
                 => /\ last'.status = AuthorizationError
                    /\ last'.data = <<>>
                    /\ users' = users
                    /\ nextUserId' = nextUserId]_vars

\* an Advisor was refused a creation that an Admin is granted, and the
\* deletion of an existing user
C16_Witness ==
    /\ last.op \in {"createUser", "deleteUser"}
    /\ last.rolId = ROLES.ADVISOR.ID
    /\ last.status = AuthorizationError
    /\ \/ last.op = "createUser" /\ last.body = BaseUser
          /\ ~existingUser(lowerTrim(BaseUser.email), 0)
       \/ last.op = "deleteUser" /\ last.id \in DOMAIN users /\ last.id # last.user

\* C17: a read or update of user record X succeeds only if the caller is X
\* or an Admin; a non-admin caller addressing another user's id gets
\* AuthorizationFailure (403) and that record is neither returned nor
\* changed.
C17_UserRecordOwnerOrAdmin ==
    [][(last = Idle /\ last'.op \in {"getUserById", "updateUser"})
         => /\ last'.status = HTTP_STATUS.OK
                 => last'.user = last'.id \/ last'.rolId = ROLES.ADMIN.ID
            /\ (last'.rolId # ROLES.ADMIN.ID /\ last'.user # last'.id)
                 => /\ last'.status = AuthorizationError
                    /\ last'.data = <<>>
                    /\ users' = users
                    /\ pending' = pending]_vars

\* an Advisor was refused the record of another existing user: its reading,
\* or an update that the owner is granted
C17_Witness ==
    /\ last.op \in {"getUserById", "updateUser"}
    /\ last.rolId = ROLES.ADVISOR.ID
    /\ last.id \in DOMAIN users
    /\ last.id # last.user
    /\ last.status = AuthorizationError
    /\ last.op = "updateUser" => last.body.password # NoPassword

\* C18: a request made by a user on their own account changes that user's
\* password only if the request supplied the user's correct current
\* password; a request without it, or with a wrong one, leaves the stored
\* password unchanged.
C18_OwnPasswordNeedsCurrentPassword ==
    [][\A u \in DOMAIN users \cap DOMAIN users' :
          (users'[u].password # users[u].password /\ last'.user = u /\ last'.id = u)
            => /\ last'.op = "changePassword"
               /\ comparePassword(last'.body.currentPassword, users[u].password)]_vars

\* no two users have the same email, compared lower-cased and trimmed
UniqueEmails ==
    \A i, j \in DOMAIN users :
        i # j => lowerTrim(users[i].email) # lowerTrim(users[j].email)

\* the step answers a creation or an update of a user that the caller may
\* make and that asks for an email another user holds
AnswersDuplicate ==
    /\ last = Idle
    /\ UNCHANGED frontend
    /\ last'.op \in {"createUser", "updateUser"}
    /\ last'.body.email # NoEmail
    /\ IF last'.op = "createUser" THEN isAdmin(last'.rolId)
       ELSE isOwnerOrAdmin(last'.rolId, last'.user, last'.id) /\ last'.id \in DOMAIN users
    /\ \E i \in DOMAIN users :
          /\ last'.op = "updateUser" => i # last'.id
          /\ lowerTrim(users[i].email) = lowerTrim(last'.body.email)

\* C19: in every reachable state no two users have the same email (compared
\* lower-cased and trimmed), under any interleaving of user create and
\* update requests, two requests that both passed the existence check
\* included; the request that would create the duplicate fails with
\* DuplicateEntry (409) and changes nothing.
C19_EmailsStayUnique ==
    /\ []UniqueEmails
    /\ [][AnswersDuplicate => last'.status = HTTP_STATUS.CONFLICT /\ users' = users]_vars

\* a creation that passed the existence check was refused by the store,
\* another request having taken its email meanwhile
C19_Witness ==
    /\ last.op = "createUser"
    /\ last.phase = "write"
    /\ last.status = HTTP_STATUS.CONFLICT
    /\ \E i \in DOMAIN users : users[i].email = lowerTrim(last.body.email)

\* the payload names a product, or a franchise that is not null, that its
\* catalog does not hold
NamesUnknownReference(body) ==
    \/ IsNum(body.productoId) /\ body.productoId.v \notin ProductCatalog
    \/ IsNum(body.franquiciaId) /\ body.franquiciaId.v \notin FranchiseCatalog

C21_RejectedWriteChangesNothing ==
    [][(last = Idle /\ last'.op \in {"createSale", "updateSale"}
          /\ last'.status = ValidationError)
         => sales' = sales /\ nextId' = nextId]_vars

\* the service refused an update that passed the route's validators, made
\* on an existing sale by a user other than its last updater
C21_Witness ==
    /\ last.op = "updateSale"
    /\ last.status = ValidationError
    /\ validateSaleUpdate(last.body)
    /\ last.id \in DOMAIN sales
    /\ ~notOwner(sales[last.id], users[last.user].rolId, last.user)
    /\ sales[last.id].usuarioActualizadorId # last.user

\* the stored status of every sale is one of the three values
StoredStatusesValid ==
    \A i \in DOMAIN sales :
        sales[i].estado \in {SALE_STATUSES.OPEN, SALE_STATUSES.IN_PROCESS,
                             SALE_STATUSES.FINISHED}

\* the step handles an update, by the sale's creator or by an Admin, that
\* passes the route's validators and sets a status of the enum on a sale
SetsStatus ==
    /\ last = Idle
    /\ UNCHANGED frontend
    /\ last'.op = "updateSale"
    /\ last'.id \in DOMAIN sales
    /\ validateSaleUpdate(last'.body)
    /\ last'.body.estado \in validStatusNames
    /\ \/ sales[last'.id].usuarioCreadorId = last'.user
       \/ roleOf(last'.user) = ROLES.ADMIN.ID

\* C22: status is an open enum: an update by the sale's creator or by an
\* Admin that sets a status s' of {Open, InProcess, Finished} on a sale in
\* any status s succeeds and stores s'; the stored status of every sale is
\* always one of the three values.
C22_AnyStatusTransition ==
    /\ []StoredStatusesValid
    /\ [][SetsStatus => /\ last'.status = HTTP_STATUS.OK
                        /\ sales'[last'.id].estado = last'.body.estado]_vars

\* C23: the items of a sale list are ordered by creation time descending,
\* and two sales with equal creation time are ordered by id descending, so
\* that the order of a list is fixed by the request and the store.
C23_ListOrderedByTimeThenId ==
    (last.op = "getAllSales" /\ last.status = HTTP_STATUS.OK)
      => \A k, m \in DOMAIN last.items :
            k < m => \/ last.items[k].createdAt > last.items[m].createdAt
                     \/ /\ last.items[k].createdAt = last.items[m].createdAt
                        /\ last.items[k].id > last.items[m].id

C25_RoleChangedByAdminOnly ==
    [][(\E i \in DOMAIN users \cap DOMAIN users' : users'[i].rolId # users[i].rolId)
         => last' # Idle /\ last'.rolId = ROLES.ADMIN.ID]_vars

\* C26: from the seeded store with one Admin, at least one user with the
\* Admin role exists in every reachable state, under any sequence of user
\* create, update and delete requests.
C26_AnAdminAlwaysExists ==
    \E i \in DOMAIN users : users[i].rolId = ROLES.ADMIN.ID

\* the answer given after the write of a request that was in flight
IsWrite(answer) == "phase" \in DOMAIN answer /\ answer.phase = "write"

\* the ids of the items of a list
ItemIds(items) == {items[k].id : k \in DOMAIN items}

\* C27: a request is authorized with the user record stored when it is
\* made, not with the claims of its token: a request with the token of a
\* user whose record was deleted is answered 401 and changes nothing, and a
\* request of a stored user is gated (user administration for the Admin
\* only) and scoped (an Advisor lists their own sales, an Admin all sales)
\* by the role stored then.
C27_AuthorizedWithStoredRecord ==
    [][(last = Idle /\ last' # Idle /\ ~IsWrite(last'))
         => IF last'.user \notin DOMAIN users
            THEN /\ last'.status = AuthenticationError
                 /\ UNCHANGED <<users, nextUserId, pending, sales, nextId>>
            ELSE /\ last'.op = "getAllUsers"
                    => (last'.status = HTTP_STATUS.OK
                          <=> users[last'.user].rolId = ROLES.ADMIN.ID)
                 /\ last'.op = "deleteUser"
                    => (last'.status = AuthorizationError
                          <=> users[last'.user].rolId # ROLES.ADMIN.ID)
                 /\ last'.op = "getAllSales"
                    => /\ last'.status = HTTP_STATUS.OK
                       /\ ItemIds(last'.items) =
                            IF users[last'.user].rolId = ROLES.ADMIN.ID THEN DOMAIN sales
                            ELSE {i \in DOMAIN sales :
                                    sales[i].usuarioCreadorId = last'.user}]_vars

\* a seeded user was deleted and another one's role was changed, and a
\* later sale creation with the deleted user's token was answered 401
C27_Witness ==
    /\ last.op = "createSale"
    /\ last.status = AuthenticationError
    /\ last.user \in DOMAIN SeedUsers \ DOMAIN users
    /\ \E j \in DOMAIN users : users[j].rolId # SeedUsers[j].rolId

\* a user seeded as an Advisor, now an Admin, listed the sales of others
C27_PromotedListsAll ==
    /\ last.op = "getAllSales"
    /\ last.status = HTTP_STATUS.OK
    /\ SeedUsers[last.user].rolId = ROLES.ADVISOR.ID
    /\ \E k \in DOMAIN last.items : last.items[k].usuarioCreadorId # last.user

\* the creator and the updater of every sale are stored users
SaleUsersExist ==
    \A i \in DOMAIN sales :
        /\ sales[i].usuarioCreadorId \in DOMAIN users
        /\ sales[i].usuarioActualizadorId \in DOMAIN users

\* C28: in every reachable state the creator and the updater of each sale
\* are existing users, under any sequence of sale writes and user
\* deletions; the deletion of a user that a sale names as its creator or
\* updater fails and removes neither the user nor the sale.
C28_SaleUsersAlwaysExist ==
    /\ []SaleUsersExist
    /\ [][(last = Idle /\ last' # Idle /\ last'.op = "deleteUser"
             /\ referencedBySale(last'.id))
            => /\ last'.status # HTTP_STATUS.OK
               /\ users' = users
               /\ sales' = sales]_vars

\* an Admin's deletion of another user, whom a sale names as its updater
\* and not as its creator, was refused by the foreign key
C28_Witness ==
    /\ last.op = "deleteUser"
    /\ last.status = SequelizeForeignKeyConstraintError
    /\ last.id # last.user
    /\ last.rolId = ROLES.ADMIN.ID
    /\ last.id \in DOMAIN users
    /\ \E i \in DOMAIN sales : sales[i].usuarioActualizadorId = last.id
    /\ \A i \in DOMAIN sales : sales[i].usuarioCreadorId # last.id

\* C29: in the result of getDashboardMetrics totalSales equals
\* salesByStatus.open + salesByStatus.inProcess + salesByStatus.finished,
\* also when sale creates and deletes of other requests interleave with the
\* count queries of the call.
C29_TotalIsSumOfStatusCounts ==
    (last.op = "getDashboardMetrics" /\ last.status = HTTP_STATUS.OK)
      => last.data.totalSales = last.data.salesByStatus.open
                                  + last.data.salesByStatus.inProcess
                                  + last.data.salesByStatus.finished

\* whenever isAuthenticated is true the token is not null
AuthenticatedHasToken == auth.isAuthenticated => auth.token # Null

\* the step is the completion of a logout: its thunk leaves and the token
\* item of localStorage is removed
LogoutCompletes ==
    /\ \E th \in thunks : th.type = "logout" /\ thunks' = thunks \ {th}
    /\ localStorage' = Null

\* C30: in the auth slice, whenever isAuthenticated is true the token is
\* non-null, in every state reachable by any ordering of the pending,
\* fulfilled and rejected actions of login, logout and verifyToken and of
\* resetAuth; and after a logout completes, fulfilled or rejected,
\* isAuthenticated is false and user and token are null.
C30_AuthenticatedImpliesToken ==
    /\ []AuthenticatedHasToken
    /\ [][LogoutCompletes => /\ ~auth'.isAuthenticated
                             /\ auth'.user = Null
                             /\ auth'.token = Null]_vars

====
